---- MODULE Spec2Model ----
(***************************************************************************)
(* The command protocol and timed-actuator execution engine of RoboCode Jr *)
(* (Sparky robot): the two ESP32 firmware variants (BLE GATT and Bluetooth *)
(* serial) and the host-side protocol encoder.                             *)
(*                                                                         *)
(* Text is modelled as a sequence of one-character strings, so that the    *)
(* firmware's positional parsing (indexOf, substring, getValue, toInt) and *)
(* its formatting (String(int)) are computed character by character.       *)
(* Time is millis(), a 32-bit unsigned millisecond counter.                *)
(*                                                                         *)
(* lastCommand, which executeCommand writes and nothing reads, and the     *)
(* lines printed to the USB serial console are left out.                   *)
(***************************************************************************)
EXTENDS Integers, Sequences, FiniteSets, TLC

\* ------------------------------------------------------------------------
\* Bounds of the model
\* ------------------------------------------------------------------------

\* How many times the clock is advanced in one behaviour.
MaxTicks == 2

\* ------------------------------------------------------------------------
\* Characters and strings
\* ------------------------------------------------------------------------

\* long and int are 32 bits wide on the ESP32: the largest long.
LongMax == 2147483647

LongMin == -LongMax - 1

\* unsigned long is 32 bits wide.  A value is held as its two 16-bit
\* halves, [hi, lo], standing for hi * 2^16 + lo, and the arithmetic below
\* is arithmetic modulo 2^32.
Half == 2^16

U32(h, l) == [hi |-> h, lo |-> l]

UZero == U32(0, 0)

\* a + n modulo 2^32, for an int n >= 0 converted to unsigned long.
UAdd(a, n) ==
    LET l == a.lo + (n % Half)
        h == a.hi + (n \div Half) + (l \div Half)
    IN U32(h % Half, l % Half)

\* a > b on unsigned long.
UGt(a, b) == a.hi > b.hi \/ (a.hi = b.hi /\ a.lo > b.lo)

\* a - b modulo 2^32.
USub(a, b) ==
    LET l == a.lo - b.lo
        borrow == IF l < 0 THEN 1 ELSE 0
        h == a.hi - b.hi - borrow
    IN U32((h + Half) % Half, (l + Half) % Half)

Digits == <<"0", "1", "2", "3", "4", "5", "6", "7", "8", "9">>

Lower == <<"a", "b", "c", "d", "e", "f", "g", "h", "i", "j", "k", "l", "m",
           "n", "o", "p", "q", "r", "s", "t", "u", "v", "w", "x", "y", "z">>

Upper == <<"A", "B", "C", "D", "E", "F", "G", "H", "I", "J", "K", "L", "M",
           "N", "O", "P", "Q", "R", "S", "T", "U", "V", "W", "X", "Y", "Z">>

IsDigit(c) == c \in {"0", "1", "2", "3", "4", "5", "6", "7", "8", "9"}

DigitVal(c) == (CHOOSE i \in 1..10 : Digits[i] = c) - 1

\* isspace(): the firmware's lines carry at most blanks, tabs, CR and LF.
IsSpace(c) == c \in {" ", "\t", "\r", "\n"}

\* String::charAt(i), 0-based; out of range gives the NUL character.
charAt(s, i) == IF i >= 0 /\ i < Len(s) THEN s[i + 1] ELSE "NUL"

\* String::indexOf(ch): the first 0-based position of ch, or -1.
indexOf(s, ch) ==
    LET RECURSIVE find(_)
        find(i) == IF i > Len(s) THEN -1
                   ELSE IF s[i] = ch THEN i - 1 ELSE find(i + 1)
    IN find(1)

\* String::substring(left, right): the characters [left, right), the two
\* ends swapped when left > right, empty when left is past the end, right
\* cut to the length.  The ends are unsigned: a negative one is past any
\* end.
substring(s, left, right) ==
    LET ul == IF left < 0 THEN LongMax ELSE left
        ur == IF right < 0 THEN LongMax ELSE right
        l == IF ul > ur THEN ur ELSE ul
        r0 == IF ul > ur THEN ul ELSE ur
        r == IF r0 > Len(s) THEN Len(s) ELSE r0
    IN IF l >= Len(s) THEN <<>> ELSE SubSeq(s, l + 1, r)

\* String::substring(from): from `from` to the end.
substringFrom(s, from) == substring(s, from, Len(s))

\* String::trim(): leading and trailing white space removed.
trim(s) ==
    LET RECURSIVE begin(_)
        begin(i) == IF i <= Len(s) /\ IsSpace(s[i]) THEN begin(i + 1) ELSE i
        RECURSIVE end(_)
        end(i) == IF i >= 1 /\ IsSpace(s[i]) THEN end(i - 1) ELSE i
    IN SubSeq(s, begin(1), end(Len(s)))

\* String::toUpperCase(): every lower-case letter replaced by its capital.
toUpperCase(s) ==
    [i \in 1..Len(s) |->
        IF \E k \in 1..26 : Lower[k] = s[i]
        THEN Upper[CHOOSE k \in 1..26 : Lower[k] = s[i]]
        ELSE s[i]]

\* String::toInt() is atol(): white space skipped, an optional sign, then
\* the leading decimal digits; no digits give 0; the value saturates at the
\* ends of long.  digits yields <<magnitude, overflowed>>.
toInt(s) ==
    LET RECURSIVE skip(_)
        skip(i) == IF i <= Len(s) /\ IsSpace(s[i]) THEN skip(i + 1) ELSE i
        start == skip(1)
        neg == start <= Len(s) /\ s[start] = "-"
        first == IF start <= Len(s) /\ s[start] \in {"-", "+"}
                 THEN start + 1 ELSE start
        RECURSIVE digits(_, _, _)
        digits(i, acc, over) ==
            IF i <= Len(s) /\ IsDigit(s[i])
            THEN IF over \/ acc > (LongMax - DigitVal(s[i])) \div 10
                 THEN digits(i + 1, LongMax, TRUE)
                 ELSE digits(i + 1, acc * 10 + DigitVal(s[i]), FALSE)
            ELSE <<acc, over>>
        r == digits(first, 0, FALSE)
    IN IF neg
       THEN (IF r[2] THEN LongMin ELSE -r[1])
       ELSE r[1]

\* String(int): the decimal text of n, with a minus sign when negative.
RECURSIVE NatToStr(_)
NatToStr(n) ==
    IF n < 10 THEN <<Digits[n + 1]>>
    ELSE NatToStr(n \div 10) \o <<Digits[(n % 10) + 1]>>

IntToStr(n) == IF n < 0 THEN <<"-">> \o NatToStr(-n) ELSE NatToStr(n)

\* getValue(data, separator, index): the firmware's field helper.
getValue(data, separator, index) ==
    LET maxIndex == Len(data) - 1
        RECURSIVE scan(_, _, _, _)
        scan(i, found, s0, s1) ==
            IF i <= maxIndex /\ found <= index
            THEN IF charAt(data, i) = separator \/ i = maxIndex
                 THEN scan(i + 1, found + 1, s1 + 1,
                           IF i = maxIndex THEN i + 1 ELSE i)
                 ELSE scan(i + 1, found, s0, s1)
            ELSE <<found, s0, s1>>
        r == scan(0, 0, 0, -1)
    IN IF r[1] > index THEN substring(data, r[2], r[3]) ELSE <<>>

\* A constrain that constrains nothing.
constrain_none(x, lo, hi) == x

\* constrain(x, lo, hi) of the Arduino core.
constrain(x, lo, hi) == IF x < lo THEN lo ELSE IF x > hi THEN hi ELSE x

\* C integer division truncates toward zero.
CDiv(a, b) == IF a >= 0 THEN a \div b ELSE -((-a) \div b)

\* map(x, in_min, in_max, out_min, out_max) of the Arduino core.
map(x, in_min, in_max, out_min, out_max) ==
    CDiv((x - in_min) * (out_max - out_min), in_max - in_min) + out_min

\* ------------------------------------------------------------------------
\* The protocol's literal texts, character by character
\* ------------------------------------------------------------------------

sMOVE == <<"M", "O", "V", "E">>

sTURN == <<"T", "U", "R", "N">>

sSTOP == <<"S", "T", "O", "P">>

sLED == <<"L", "E", "D">>

sBEEP == <<"B", "E", "E", "P">>

sWAIT == <<"W", "A", "I", "T">>

sSENSOR == <<"S", "E", "N", "S", "O", "R">>

sF == <<"F">>

sB == <<"B">>

sL == <<"L">>

sR == <<"R">>

sON == <<"O", "N">>

sOFF == <<"O", "F", "F">>

sDISTANCE == <<"D", "I", "S", "T", "A", "N", "C", "E">>

sLIGHT == <<"L", "I", "G", "H", "T">>

sOBSTACLE == <<"O", "B", "S", "T", "A", "C", "L", "E">>

sColon == <<":">>

sERROR_INVALID_FORMAT ==
    <<"E", "R", "R", "O", "R", ":", "I", "N", "V", "A", "L", "I", "D", "_",
      "F", "O", "R", "M", "A", "T">>

sERROR_UNKNOWN_COMMAND ==
    <<"E", "R", "R", "O", "R", ":", "U", "N", "K", "N", "O", "W", "N", "_",
      "C", "O", "M", "M", "A", "N", "D", ":">>

sERROR_INVALID_DIRECTION ==
    <<"E", "R", "R", "O", "R", ":", "I", "N", "V", "A", "L", "I", "D", "_",
      "D", "I", "R", "E", "C", "T", "I", "O", "N", ":">>

sERROR_INVALID_LED_STATE ==
    <<"E", "R", "R", "O", "R", ":", "I", "N", "V", "A", "L", "I", "D", "_",
      "L", "E", "D", "_", "S", "T", "A", "T", "E", ":">>

sERROR_UNKNOWN_SENSOR ==
    <<"E", "R", "R", "O", "R", ":", "U", "N", "K", "N", "O", "W", "N", "_",
      "S", "E", "N", "S", "O", "R", ":">>

sOK_MOVE == <<"O", "K", ":", "M", "O", "V", "E", ":">>

sOK_TURN == <<"O", "K", ":", "T", "U", "R", "N", ":">>

sOK_STOP == <<"O", "K", ":", "S", "T", "O", "P">>

sOK_LED == <<"O", "K", ":", "L", "E", "D", ":">>

sOK_BEEP == <<"O", "K", ":", "B", "E", "E", "P", ":">>

sOK_WAIT == <<"O", "K", ":", "W", "A", "I", "T", ":">>

sSENSOR_DISTANCE ==
    <<"S", "E", "N", "S", "O", "R", ":", "D", "I", "S", "T", "A", "N", "C",
      "E", ":">>

sSENSOR_LIGHT ==
    <<"S", "E", "N", "S", "O", "R", ":", "L", "I", "G", "H", "T", ":">>

sSENSOR_OBSTACLE ==
    <<"S", "E", "N", "S", "O", "R", ":", "O", "B", "S", "T", "A", "C", "L",
      "E", ":">>

sCm == <<":", "c", "m">>

sLux == <<":", "l", "u", "x">>

sBoolean == <<":", "b", "o", "o", "l", "e", "a", "n">>

sTIMEOUT_MOTOR_STOP ==
    <<"T", "I", "M", "E", "O", "U", "T", ":", "M", "O", "T", "O", "R", "_",
      "S", "T", "O", "P">>

sREADY_SPARKY_CONNECTED ==
    <<"R", "E", "A", "D", "Y", ":", "S", "P", "A", "R", "K", "Y", "_", "C",
      "O", "N", "N", "E", "C", "T", "E", "D">>

sNOOP == <<"N", "O", "O", "P">>

\* ------------------------------------------------------------------------
\* The device: its globals, PWM channels and pins, held in one record d
\* while a handler runs
\* ------------------------------------------------------------------------

\* PWM_RESOLUTION: every channel is set up with 8 bits (duty 0..255).
PWM_RESOLUTION == 8

\* ledcWriteTone(chan, freq) with freq > 0 drives the channel with a square
\* wave of that frequency at half duty.
ToneDuty == 2^(PWM_RESOLUTION - 1)

\* ledcWrite(channel, duty)
ledcWrite(d, channel, duty) == [d EXCEPT !.pwm[channel] = duty]

\* ledcWriteTone(channel, freq): freq = 0 writes duty 0 and ends the tone.
ledcWriteTone(d, channel, freq) ==
    IF freq = 0
    THEN [ledcWrite(d, channel, 0) EXCEPT !.tone[channel] = 0]
    ELSE [ledcWrite(d, channel, ToneDuty) EXCEPT !.tone[channel] = freq]

\* sendResponse of the BLE firmware: the response is notified only while a
\* client is connected.
sendResponseBLE(d, response) ==
    IF d.deviceConnected
    THEN [d EXCEPT !.out = Append(@, response)]
    ELSE d

\* sendResponse of the serial firmware: SerialBT.println, unconditionally.
sendResponseSerial(d, response) == [d EXCEPT !.out = Append(@, response)]

\* sendResponse of the firmware variant that is running.
sendResponse(d, response) ==
    IF d.firmware = "ble"
    THEN sendResponseBLE(d, response)
    ELSE sendResponseSerial(d, response)

moveForward(d, speed) ==
    LET pwmValue == map(speed, 0, 100, 0, 255)
    IN ledcWrite(ledcWrite(ledcWrite(ledcWrite(d,
           "L1", pwmValue), "L2", 0), "R1", pwmValue), "R2", 0)

moveBackward(d, speed) ==
    LET pwmValue == map(speed, 0, 100, 0, 255)
    IN ledcWrite(ledcWrite(ledcWrite(ledcWrite(d,
           "L1", 0), "L2", pwmValue), "R1", 0), "R2", pwmValue)

\* A turnLeft that drives the wheels as turnRight does.
turnLeft_asRight(d, speed) ==
    LET pwmValue == map(speed, 0, 100, 0, 255)
    IN ledcWrite(ledcWrite(ledcWrite(ledcWrite(d,
           "L1", pwmValue), "L2", 0), "R1", 0), "R2", pwmValue)

turnLeft(d, speed) ==
    LET pwmValue == map(speed, 0, 100, 0, 255)
    IN ledcWrite(ledcWrite(ledcWrite(ledcWrite(d,
           "L1", 0), "L2", pwmValue), "R1", pwmValue), "R2", 0)

turnRight(d, speed) ==
    LET pwmValue == map(speed, 0, 100, 0, 255)
    IN ledcWrite(ledcWrite(ledcWrite(ledcWrite(d,
           "L1", pwmValue), "L2", 0), "R1", 0), "R2", pwmValue)

stopMotors(d) ==
    ledcWrite(ledcWrite(ledcWrite(ledcWrite(d,
        "L1", 0), "L2", 0), "R1", 0), "R2", 0)

\* handleMoveCommand, its locals once parsed and constrained.
moveArgs(params) ==
    [direction |-> getValue(params, ":", 0),
     speed |-> constrain(toInt(getValue(params, ":", 1)), 0, 100),
     duration |-> constrain(toInt(getValue(params, ":", 2)), 0, 10000),
     angle |-> 0]

\* handleMoveCommand, the direction branch: the motors are driven.
moveDrive(d, a) ==
    IF a.direction = sF THEN moveForward(d, a.speed)
    ELSE moveBackward(d, a.speed)

\* handleMoveCommand and handleTurnCommand: commandTimeout = millis() + duration
armTimeout(d, a) == [d EXCEPT !.commandTimeout = UAdd(d.millis, a.duration)]

\* handleMoveCommand: currentSpeed is set and the command answered.
moveAnswer(d, a) ==
    sendResponse([d EXCEPT !.currentSpeed = a.speed],
                 sOK_MOVE \o a.direction \o sColon \o IntToStr(a.speed)
                          \o sColon \o IntToStr(a.duration))

\* A handleMoveCommand that drives the motors before it looks at the
\* direction.
handleMoveCommand_driveFirst(d, params) ==
    LET a == moveArgs(params)
    IN IF a.direction # sF /\ a.direction # sB
       THEN sendResponse(moveDrive(d, a),
                         sERROR_INVALID_DIRECTION \o a.direction)
       ELSE moveAnswer(armTimeout(moveDrive(d, a), a), a)

\* handleMoveCommand: MOVE:<F|B>:<speed>:<duration>
handleMoveCommand(d, params) ==
    LET a == moveArgs(params)
    IN IF a.direction # sF /\ a.direction # sB
       THEN sendResponse(d, sERROR_INVALID_DIRECTION \o a.direction)
       ELSE moveAnswer(armTimeout(moveDrive(d, a), a), a)

\* The duration handleTurnCommand estimates for an angle: the double
\* (angle / 90.0) * 1000 cut to int, which for every angle in 0..360 is the
\* integer quotient angle * 1000 / 90.
turnDuration(angle) == CDiv(angle * 1000, 90)

\* handleTurnCommand, its locals once parsed and constrained.
turnArgs(params) ==
    LET angle == constrain(toInt(getValue(params, ":", 1)), 0, 360)
    IN [direction |-> getValue(params, ":", 0),
        speed |-> constrain(toInt(getValue(params, ":", 2)), 0, 100),
        duration |-> turnDuration(angle),
        angle |-> angle]

\* handleTurnCommand, the direction branch: the motors are driven.
turnDrive(d, a) ==
    IF a.direction = sL THEN turnLeft(d, a.speed)
    ELSE turnRight(d, a.speed)

\* A handleTurnCommand that echoes the speed before the angle.
turnAnswer_speedFirst(d, a) ==
    sendResponse([d EXCEPT !.currentSpeed = a.speed],
                 sOK_TURN \o a.direction \o sColon \o IntToStr(a.speed)
                          \o sColon \o IntToStr(a.angle))

\* handleTurnCommand: currentSpeed is set and the command answered.
turnAnswer(d, a) ==
    sendResponse([d EXCEPT !.currentSpeed = a.speed],
                 sOK_TURN \o a.direction \o sColon \o IntToStr(a.angle)
                          \o sColon \o IntToStr(a.speed))

\* handleTurnCommand: TURN:<L|R>:<angle>:<speed>
handleTurnCommand(d, params) ==
    LET a == turnArgs(params)
    IN IF a.direction # sL /\ a.direction # sR
       THEN sendResponse(d, sERROR_INVALID_DIRECTION \o a.direction)
       ELSE turnAnswer(armTimeout(turnDrive(d, a), a), a)

\* handleStopCommand: commandTimeout = 0
disarmTimeout(d) == [d EXCEPT !.commandTimeout = UZero]

\* handleStopCommand: currentSpeed is cleared and the command answered.
stopAnswer(d) == sendResponse([d EXCEPT !.currentSpeed = 0], sOK_STOP)

\* A handleStopCommand that leaves the timeout armed.
handleStopCommand_noDisarm(d) == stopAnswer(stopMotors(d))

\* handleStopCommand
handleStopCommand(d) == stopAnswer(disarmTimeout(stopMotors(d)))

\* handleLEDCommand of the BLE firmware: the LED is a PWM channel.
handleLEDCommandBLE(d, params) ==
    LET state == getValue(params, ":", 0)
        brightness == constrain(toInt(getValue(params, ":", 1)), 0, 100)
        level == map(brightness, 0, 100, 0, 255)
    IN IF state = sON
       THEN sendResponse(
                [ledcWrite(d, "LED", level) EXCEPT !.ledBrightness = level,
                                                   !.ledState = TRUE],
                sOK_LED \o state)
       ELSE IF state = sOFF
       THEN sendResponse(
                [ledcWrite(d, "LED", 0) EXCEPT !.ledState = FALSE,
                                               !.ledBrightness = 0],
                sOK_LED \o state)
       ELSE sendResponse(d, sERROR_INVALID_LED_STATE \o state)

\* handleLEDCommand of the serial firmware: the LED is a digital pin.
handleLEDCommandSerial(d, params) ==
    LET state == getValue(params, ":", 0)
    IN IF state = sON
       THEN sendResponse([d EXCEPT !.ledPin = TRUE, !.ledState = TRUE],
                         sOK_LED \o state)
       ELSE IF state = sOFF
       THEN sendResponse([d EXCEPT !.ledPin = FALSE, !.ledState = FALSE],
                         sOK_LED \o state)
       ELSE sendResponse(d, sERROR_INVALID_LED_STATE \o state)

\* handleBeepCommand of the BLE firmware, up to its delay(duration): the
\* tone is written to the left motor's forward channel and the callback
\* blocks; frequency and duration stay in the handler's locals.
handleBeepCommandBLE(d, params) ==
    LET frequency == constrain(toInt(getValue(params, ":", 0)), 100, 5000)
        duration == constrain(toInt(getValue(params, ":", 1)), 50, 3000)
    IN [ledcWriteTone(d, "L1", frequency) EXCEPT
            !.pc = "beep",
            !.delayLeft = duration,
            !.frequency = frequency,
            !.duration = duration]

\* handleBeepCommand of the BLE firmware, from the return of delay(): the
\* tone is ended and the command answered.
handleBeepCommandBLE_end(d) ==
    sendResponse(
        [ledcWriteTone(d, "L1", 0) EXCEPT !.pc = "idle",
                                          !.frequency = 0,
                                          !.duration = 0],
        sOK_BEEP \o IntToStr(d.frequency) \o sColon \o IntToStr(d.duration))

\* handleBeepCommand of the serial firmware: tone(BUZZER_PIN, f, d) starts
\* the tone on the buzzer pin and returns at once.
handleBeepCommandSerial(d, params) ==
    LET frequency == constrain(toInt(getValue(params, ":", 0)), 100, 5000)
        duration == constrain(toInt(getValue(params, ":", 1)), 50, 3000)
    IN sendResponse(
           [d EXCEPT !.buzzer = [freq |-> frequency, ms |-> duration]],
           sOK_BEEP \o IntToStr(frequency) \o sColon \o IntToStr(duration))

\* handleWaitCommand (serial firmware only): delay(duration) inside the
\* handler, so the clock has advanced by duration when it answers.
handleWaitCommand(d, params) ==
    LET duration == constrain(toInt(params), 0, 5000)
    IN sendResponse([d EXCEPT !.millis = UAdd(@, duration)],
                    sOK_WAIT \o IntToStr(duration))


\* ------------------------------------------------------------------------
\* Sensors.  A reading's environment is env = [echo |-> microseconds that
\* pulseIn measured (0: no echo before its timeout), light |-> the raw
\* analogRead value].  A distance is held in thousandths of a centimetre:
\* duration * 0.034 / 2 cm is duration * 17 thousandths.
\* ------------------------------------------------------------------------

\* readDistanceSensor of the BLE firmware: no echo reads as the maximum
\* range, any other reading is kept inside 2..400 cm.
readDistanceSensorBLE(env) ==
    IF env.echo = 0 THEN 400 * 1000
    ELSE constrain(env.echo * 17, 2 * 1000, 400 * 1000)

\* readDistanceSensor of the serial firmware: no test for a missing echo,
\* the reading is kept inside 0..400 cm.
readDistanceSensorSerial(env) == constrain(env.echo * 17, 0, 400 * 1000)

readDistanceSensor(d, env) ==
    IF d.firmware = "ble" THEN readDistanceSensorBLE(env)
    ELSE readDistanceSensorSerial(env)

\* readLightSensor
readLightSensor(env) == map(env.light, 0, 4095, 0, 1023)

\* String(float): two decimals, rounded to the nearest hundredth.
FloatToStr(thousandths) ==
    LET h == (thousandths + 5) \div 10
    IN IntToStr(h \div 100) \o <<".">>
           \o <<Digits[((h \div 10) % 10) + 1], Digits[(h % 10) + 1]>>

\* A handleSensorCommand that sees an obstacle only below 15 cm.
handleSensorCommand_nearer(d, params, env) ==
    LET sensorType == toUpperCase(params)
        distance == readDistanceSensor(d, env)
        obstacle == distance < 15 * 1000
    IN IF sensorType = sDISTANCE
       THEN sendResponse(d, sSENSOR_DISTANCE \o FloatToStr(distance) \o sCm)
       ELSE IF sensorType = sLIGHT
       THEN sendResponse(d, sSENSOR_LIGHT \o IntToStr(readLightSensor(env))
                                \o sLux)
       ELSE IF sensorType = sOBSTACLE
       THEN sendResponse(d, sSENSOR_OBSTACLE
                                \o IntToStr(IF obstacle THEN 1 ELSE 0)
                                \o sBoolean)
       ELSE sendResponse(d, sERROR_UNKNOWN_SENSOR \o sensorType)

\* handleSensorCommand: SENSOR:<DISTANCE|LIGHT|OBSTACLE>
handleSensorCommand(d, params, env) ==
    LET sensorType == toUpperCase(params)
        distance == readDistanceSensor(d, env)
        obstacle == distance < 20 * 1000
    IN IF sensorType = sDISTANCE
       THEN sendResponse(d, sSENSOR_DISTANCE \o FloatToStr(distance) \o sCm)
       ELSE IF sensorType = sLIGHT
       THEN sendResponse(d, sSENSOR_LIGHT \o IntToStr(readLightSensor(env))
                                \o sLux)
       ELSE IF sensorType = sOBSTACLE
       THEN sendResponse(d, sSENSOR_OBSTACLE
                                \o IntToStr(IF obstacle THEN 1 ELSE 0)
                                \o sBoolean)
       ELSE sendResponse(d, sERROR_UNKNOWN_SENSOR \o sensorType)

\* ------------------------------------------------------------------------
\* executeCommand: TYPE before the first colon, the parameters after it
\* ------------------------------------------------------------------------

\* executeCommand: String type = command.substring(0, firstColon)
commandType(command) == substring(command, 0, indexOf(command, ":"))

\* executeCommand: String params = command.substring(firstColon + 1)
commandParams(command) == substringFrom(command, indexOf(command, ":") + 1)

\* An executeCommand that drops a line without a colon and answers nothing.
executeCommandBLE_dropNoColon(d, command, env) ==
    LET firstColon == indexOf(command, ":")
        type == commandType(command)
        params == commandParams(command)
    IN IF firstColon = -1 THEN d
       ELSE IF type = sMOVE THEN handleMoveCommand(d, params)
       ELSE IF type = sTURN THEN handleTurnCommand(d, params)
       ELSE IF type = sSTOP THEN handleStopCommand(d)
       ELSE IF type = sLED THEN handleLEDCommandBLE(d, params)
       ELSE IF type = sBEEP THEN handleBeepCommandBLE(d, params)
       ELSE IF type = sSENSOR THEN handleSensorCommand(d, params, env)
       ELSE sendResponse(d, sERROR_UNKNOWN_COMMAND \o type)

\* executeCommand of the BLE firmware (it has no WAIT branch).
executeCommandBLE(d, command, env) ==
    LET firstColon == indexOf(command, ":")
        type == commandType(command)
        params == commandParams(command)
    IN IF firstColon = -1 THEN sendResponse(d, sERROR_INVALID_FORMAT)
       ELSE IF type = sMOVE THEN handleMoveCommand(d, params)
       ELSE IF type = sTURN THEN handleTurnCommand(d, params)
       ELSE IF type = sSTOP THEN handleStopCommand(d)
       ELSE IF type = sLED THEN handleLEDCommandBLE(d, params)
       ELSE IF type = sBEEP THEN handleBeepCommandBLE(d, params)
       ELSE IF type = sSENSOR THEN handleSensorCommand(d, params, env)
       ELSE sendResponse(d, sERROR_UNKNOWN_COMMAND \o type)

\* executeCommand of the serial firmware.
executeCommandSerial(d, command, env) ==
    LET firstColon == indexOf(command, ":")
        type == commandType(command)
        params == commandParams(command)
    IN IF firstColon = -1 THEN sendResponse(d, sERROR_INVALID_FORMAT)
       ELSE IF type = sMOVE THEN handleMoveCommand(d, params)
       ELSE IF type = sTURN THEN handleTurnCommand(d, params)
       ELSE IF type = sSTOP THEN handleStopCommand(d)
       ELSE IF type = sLED THEN handleLEDCommandSerial(d, params)
       ELSE IF type = sBEEP THEN handleBeepCommandSerial(d, params)
       ELSE IF type = sWAIT THEN handleWaitCommand(d, params)
       ELSE IF type = sSENSOR THEN handleSensorCommand(d, params, env)
       ELSE sendResponse(d, sERROR_UNKNOWN_COMMAND \o type)

\* MyCommandCallbacks::onWrite: the written value trimmed, executed when
\* not empty.
onWrite(d, value, env) ==
    LET command == trim(value)
    IN IF Len(command) > 0 THEN executeCommandBLE(d, command, env) ELSE d

\* welcomeSequence of the BLE firmware: the LED fades in and out and a
\* tone sounds on the LED channel, all ended before READY is sent.
welcomeSequence(d) ==
    IF ~d.deviceConnected THEN d
    ELSE sendResponse(
             ledcWrite(ledcWriteTone(ledcWriteTone(ledcWrite(d,
                 "LED", 0), "LED", 1000), "LED", 0), "LED", 0),
             sREADY_SPARKY_CONNECTED)

\* MyServerCallbacks::onConnect
onConnect(d) == welcomeSequence([d EXCEPT !.deviceConnected = TRUE])

\* An onDisconnect that forgets stopMotors().
onDisconnect_noStop(d) == disarmTimeout([d EXCEPT !.deviceConnected = FALSE])

\* MyServerCallbacks::onDisconnect
onDisconnect(d) ==
    disarmTimeout(stopMotors([d EXCEPT !.deviceConnected = FALSE]))

\* The timeout check of loop(): commandTimeout > 0 && millis() > commandTimeout
timeoutElapsed(d) == d.commandTimeout # UZero /\ UGt(d.millis, d.commandTimeout)

\* loop() of the BLE firmware: the timeout check.
loopBLE(d) ==
    IF timeoutElapsed(d)
    THEN sendResponse(disarmTimeout(stopMotors(d)), sTIMEOUT_MOTOR_STOP)
    ELSE d

\* loop() of the serial firmware: one line read and executed when input is
\* available, then the timeout check.  input is <<>> when nothing is
\* available and <<line>> otherwise.
loopSerial(d, input, env) ==
    LET command == IF input = <<>> THEN <<>> ELSE trim(input[1])
        d1 == IF Len(command) > 0 THEN executeCommandSerial(d, command, env)
              ELSE d
    IN IF timeoutElapsed(d1)
       THEN disarmTimeout(stopMotors(d1))
       ELSE d1

\* ------------------------------------------------------------------------
\* The host's protocol encoder (CommandProtocolEncoder).  A RobotCommand is
\* [type, action, parameters, duration]; a numeric parameter that is absent
\* is held as 0 and an absent text as <<>>, which `x || default` treats
\* alike.  A command's duration is the number duration + durationNinths / 9
\* of milliseconds: only a turn's estimated duration has a fraction.
\* ------------------------------------------------------------------------

\* JavaScript's x || dflt on a number.
OrNum(x, dflt) == IF x = 0 THEN dflt ELSE x

\* JavaScript's x || dflt on a string.
OrStr(x, dflt) == IF x = <<>> THEN dflt ELSE x

sWhite == <<"w", "h", "i", "t", "e">>

sLowerDistance == <<"d", "i", "s", "t", "a", "n", "c", "e">>

encodeMoveCommand(command) ==
    LET speed == OrNum(command.parameters.speed, 50)
        duration == OrNum(command.parameters.duration, 1000)
        direction == IF command.action = "forward" THEN sF ELSE sB
    IN sMOVE \o sColon \o direction \o sColon \o IntToStr(speed)
             \o sColon \o IntToStr(duration)

encodeTurnCommand(command) ==
    LET angle == OrNum(command.parameters.angle, 90)
        speed == OrNum(command.parameters.speed, 30)
        direction == IF command.action = "left" THEN sL ELSE sR
    IN sTURN \o sColon \o direction \o sColon \o IntToStr(angle)
             \o sColon \o IntToStr(speed)

encodeLedCommand(command) ==
    LET brightness == OrNum(command.parameters.brightness, 100)
        color == OrStr(command.parameters.color, sWhite)
    IN IF command.action = "off" THEN sLED \o sColon \o sOFF
       ELSE sLED \o sColon \o sON \o sColon \o IntToStr(brightness)
                 \o sColon \o color

encodeBeepCommand(command) ==
    LET frequency == OrNum(command.parameters.frequency, 1000)
        duration == OrNum(command.parameters.duration, 500)
    IN sBEEP \o sColon \o IntToStr(frequency) \o sColon \o IntToStr(duration)

encodeSensorCommand(command) ==
    LET sensor == OrStr(command.parameters.sensor, sLowerDistance)
    IN sSENSOR \o sColon \o toUpperCase(sensor)

\* CommandProtocolEncoder.encodeCommand
encodeCommand(command) ==
    CASE command.type = "move" -> encodeMoveCommand(command)
      [] command.type = "turn" -> encodeTurnCommand(command)
      [] command.type = "stop" -> sSTOP
      [] command.type = "led" -> encodeLedCommand(command)
      [] command.type = "beep" -> encodeBeepCommand(command)
      [] command.type = "wait" -> sWAIT \o sColon \o IntToStr(command.duration)
      [] command.type = "sensor" -> encodeSensorCommand(command)
      [] OTHER -> sNOOP

\* ------------------------------------------------------------------------
\* The host's compiler (BlockToCommandCompiler).  A block is [id,
\* parameters]; its type, category, label and icon are never read by the
\* compiler.  Block parameters are integers, 0 standing for an absent one.
\* ------------------------------------------------------------------------

\* A command's parameters when none is given.
NoParameters ==
    [speed |-> 0, duration |-> 0, angle |-> 0, brightness |-> 0,
     color |-> <<>>, frequency |-> 0, sensor |-> <<>>, time |-> 0]

\* The command compileBlock builds for a stop block.
StopCommand ==
    [type |-> "stop", action |-> "motors", parameters |-> NoParameters,
     duration |-> 100, durationNinths |-> 0]

\* String.prototype.includes
includes(s, sub) ==
    \E i \in 1..(Len(s) - Len(sub) + 1) : SubSeq(s, i, i + Len(sub) - 1) = sub

\* block.id.split('-')[0]: the text before the first dash, or all of it.
splitFirst(s) ==
    LET RECURSIVE upTo(_)
        upTo(i) == IF i > Len(s) \/ s[i] = "-" THEN <<>>
                   ELSE <<s[i]>> \o upTo(i + 1)
    IN upTo(1)

\* A Math.min that returns its second argument.
MathMin_second(a, b) == b

MathMin(a, b) == IF a < b THEN a ELSE b

MathMax(a, b) == IF a > b THEN a ELSE b

sForward == <<"f", "o", "r", "w", "a", "r", "d">>

sLeft == <<"l", "e", "f", "t">>

sOn == <<"o", "n">>

sObstacle == <<"o", "b", "s", "t", "a", "c", "l", "e">>

sLight == <<"l", "i", "g", "h", "t">>

sMoveKind == <<"m", "o", "v", "e">>

sTurnKind == <<"t", "u", "r", "n">>

sStopKind == <<"s", "t", "o", "p">>

sLedKind == <<"l", "e", "d">>

sBeepKind == <<"b", "e", "e", "p">>

sWaitKind == <<"w", "a", "i", "t">>

sReadKind == <<"r", "e", "a", "d">>

sCheckKind == <<"c", "h", "e", "c", "k">>

compileMoveCommand(block) ==
    LET direction == IF includes(block.id, sForward) THEN "forward"
                     ELSE "backward"
        speed == OrNum(block.parameters.speed, 50)
        duration == OrNum(block.parameters.duration, 1000)
    IN [type |-> "move", action |-> direction,
        parameters |-> [NoParameters EXCEPT
                            !.speed = MathMax(0, MathMin(100, speed)),
                            !.duration = duration],
        duration |-> duration, durationNinths |-> 0]

\* compileTurnCommand: duration = Math.max(500, (angle / 90) * 1000), with
\* the angle as the block gives it; angle * 1000 / 90 is a whole number of
\* milliseconds and (angle * 1000 % 90) / 10 ninths.
compileTurnCommand(block) ==
    LET direction == IF includes(block.id, sLeft) THEN "left" ELSE "right"
        angle == OrNum(block.parameters.angle, 90)
        speed == OrNum(block.parameters.speed, 30)
        estimated == angle * 1000
        short == estimated <= 500 * 90
    IN [type |-> "turn", action |-> direction,
        parameters |-> [NoParameters EXCEPT
                            !.angle = MathMax(0, MathMin(360, angle)),
                            !.speed = MathMax(0, MathMin(100, speed))],
        duration |-> IF short THEN 500 ELSE estimated \div 90,
        durationNinths |-> IF short THEN 0 ELSE (estimated % 90) \div 10]

compileLedCommand(block) ==
    LET state == IF includes(block.id, sOn) THEN "on" ELSE "off"
        color == OrStr(block.parameters.color, sWhite)
        brightness == OrNum(block.parameters.brightness, 100)
    IN [type |-> "led", action |-> state,
        parameters |-> [NoParameters EXCEPT
                            !.color = color,
                            !.brightness = MathMax(0, MathMin(100, brightness))],
        duration |-> 100, durationNinths |-> 0]

compileSensorCommand(block) ==
    LET sensorType == IF includes(block.id, sLowerDistance) THEN sLowerDistance
                      ELSE IF includes(block.id, sObstacle) THEN sObstacle
                      ELSE IF includes(block.id, sLight) THEN sLight
                      ELSE sLowerDistance
    IN [type |-> "sensor", action |-> "read",
        parameters |-> [NoParameters EXCEPT !.sensor = sensorType],
        duration |-> 200, durationNinths |-> 0]

\* The block kinds compileBlock has a case for.
BlockKinds ==
    {sMoveKind, sTurnKind, sStopKind, sLedKind, sBeepKind, sWaitKind,
     sReadKind, sCheckKind}

\* BlockToCommandCompiler.compileBlock: the command it returns.
compileBlock(block) ==
    LET kind == splitFirst(block.id)
    IN IF kind = sMoveKind THEN compileMoveCommand(block)
       ELSE IF kind = sTurnKind THEN compileTurnCommand(block)
       ELSE IF kind = sStopKind THEN StopCommand
       ELSE IF kind = sLedKind THEN compileLedCommand(block)
       ELSE IF kind = sBeepKind
       THEN [type |-> "beep", action |-> "sound",
             parameters |-> [NoParameters EXCEPT !.frequency = 1000,
                                                 !.duration = 500],
             duration |-> 500, durationNinths |-> 0]
       ELSE IF kind = sWaitKind
       THEN [type |-> "wait", action |-> "delay",
             parameters |-> [NoParameters EXCEPT
                                 !.time = OrNum(block.parameters.duration, 1000)],
             duration |-> OrNum(block.parameters.duration, 1000),
             durationNinths |-> 0]
       ELSE IF kind \in {sReadKind, sCheckKind} THEN compileSensorCommand(block)
       ELSE [type |-> "wait", action |-> "noop", parameters |-> NoParameters,
             duration |-> 100, durationNinths |-> 0]

\* BlockToCommandCompiler.compileBlock: what it writes with console.warn,
\* the ids of the blocks it has no case for.
compileBlockWarnings(block) ==
    IF splitFirst(block.id) \in BlockKinds THEN <<>> ELSE <<block.id>>

\* A compileProgram that leaves out the blocks it has no case for.
compileProgram_skipUnknown(blocks) ==
    LET RECURSIVE compileFrom(_)
        compileFrom(i) ==
            IF i > Len(blocks) THEN <<>>
            ELSE IF splitFirst(blocks[i].id) \in BlockKinds
            THEN <<compileBlock(blocks[i])>> \o compileFrom(i + 1)
            ELSE compileFrom(i + 1)
    IN compileFrom(1)

\* BlockToCommandCompiler.compileProgram: blocks.map(compileBlock)
compileProgram(blocks) ==
    LET RECURSIVE compileFrom(_)
        compileFrom(i) ==
            IF i > Len(blocks) THEN <<>>
            ELSE <<compileBlock(blocks[i])>> \o compileFrom(i + 1)
    IN compileFrom(1)

\* The console after compileProgram: one warning for each unknown block, in
\* order.
compileProgramWarnings(blocks) ==
    LET RECURSIVE warnFrom(_)
        warnFrom(i) ==
            IF i > Len(blocks) THEN <<>>
            ELSE compileBlockWarnings(blocks[i]) \o warnFrom(i + 1)
    IN warnFrom(1)

\* Array.prototype.filter: a new list of the commands of one type.
filterType(commands, type) == SelectSeq(commands, LAMBDA cmd : cmd.type = type)

\* A validateProgram that counts 20 movement commands as too many.
validateProgram_atTwenty(commands) ==
    LET empty == IF Len(commands) = 0 THEN <<"Program is empty">> ELSE <<>>
        long == IF Len(commands) > 50
                THEN <<"Program too long (max 50 commands)">> ELSE <<>>
        moveCommands == filterType(commands, "move")
        drain == IF Len(moveCommands) >= 20
                 THEN <<"Too many movement commands - may drain battery quickly">>
                 ELSE <<>>
        errors == empty \o long \o drain
    IN [valid |-> Len(errors) = 0, errors |-> errors, commands |-> commands]

\* A validateProgram that keeps only the move commands in its argument.
validateProgram_inPlace(commands) ==
    LET empty == IF Len(commands) = 0 THEN <<"Program is empty">> ELSE <<>>
        long == IF Len(commands) > 50
                THEN <<"Program too long (max 50 commands)">> ELSE <<>>
        moveCommands == filterType(commands, "move")
        drain == IF Len(moveCommands) > 20
                 THEN <<"Too many movement commands - may drain battery quickly">>
                 ELSE <<>>
        errors == empty \o long \o drain
    IN [valid |-> Len(errors) = 0, errors |-> errors, commands |-> moveCommands]

\* BlockToCommandCompiler.validateProgram: what it returns, valid and
\* errors, and its argument as the call leaves it, commands.
validateProgram(commands) ==
    LET empty == IF Len(commands) = 0 THEN <<"Program is empty">> ELSE <<>>
        long == IF Len(commands) > 50
                THEN <<"Program too long (max 50 commands)">> ELSE <<>>
        moveCommands == filterType(commands, "move")
        drain == IF Len(moveCommands) > 20
                 THEN <<"Too many movement commands - may drain battery quickly">>
                 ELSE <<>>
        errors == empty \o long \o drain
    IN [valid |-> Len(errors) = 0, errors |-> errors, commands |-> commands]

\* ------------------------------------------------------------------------
\* The host's Bluetooth adapter (BluetoothService).  The adapter is a record
\* of the service's fields and of what the browser holds for the device:
\* connected is device.gatt.connected and link counts the connections made.
\* A characteristic object is held as the number of the connection it was
\* discovered on, 0 standing for null: the browser invalidates the objects
\* of a connection when it ends.  notifying is the connection on which
\* startNotifications() was answered, listeners the number of
\* characteristicvaluechanged listeners on the response characteristic of
\* the present connection, pcConnect the await connectToDevice stands at,
\* and calls the number of connectToDevice calls made.
\* ------------------------------------------------------------------------

NoAdapter ==
    [connectedDevice |-> "null", commandCharacteristic |-> 0,
     responseCharacteristic |-> 0, responseCallbacks |-> <<>>,
     connected |-> FALSE, link |-> 0, notifying |-> 0, listeners |-> 0,
     pcConnect |-> "idle", calls |-> 0]

\* BluetoothService.isConnected: connectedDevice?.server?.connected || false
isConnected(a) == a.connectedDevice # "null" /\ a.connected

\* The response characteristic notifies and a listener is on it.
Subscribed(a) == a.connected /\ a.notifying = a.link /\ a.listeners > 0

\* BluetoothService.connectToDevice, up to its first await.
connectToDevice(a) == [a EXCEPT !.pcConnect = "gatt", !.calls = @ + 1]

\* A connectToDevice that stores the command characteristic as soon as it
\* has discovered it.
resolved_publishEarly(a) ==
    IF a.pcConnect = "gatt"
    THEN [a EXCEPT !.connected = TRUE,
                   !.link = IF a.connected THEN @ ELSE @ + 1,
                   !.pcConnect = "service"]
    ELSE IF a.pcConnect = "service" THEN [a EXCEPT !.pcConnect = "commandChar"]
    ELSE IF a.pcConnect = "commandChar"
    THEN [a EXCEPT !.commandCharacteristic = a.link,
                   !.pcConnect = "responseChar"]
    ELSE IF a.pcConnect = "responseChar"
    THEN [a EXCEPT !.pcConnect = "notifications"]
    ELSE [a EXCEPT !.notifying = a.link,
                   !.listeners = @ + 1,
                   !.connectedDevice = "sparky",
                   !.commandCharacteristic = a.link,
                   !.responseCharacteristic = a.link,
                   !.pcConnect = "idle"]

\* BluetoothService.connectToDevice: the promise it awaits is fulfilled and
\* it runs on to its next await, or to its end.  The awaits are, in order,
\* gatt.connect(), getPrimaryService(), getCharacteristic() for the command
\* and for the response characteristic, and startNotifications(); what
\* follows the last one runs without a break.
resolved(a) ==
    IF a.pcConnect = "gatt"
    THEN [a EXCEPT !.connected = TRUE,
                   !.link = IF a.connected THEN @ ELSE @ + 1,
                   !.pcConnect = "service"]
    ELSE IF a.pcConnect = "service" THEN [a EXCEPT !.pcConnect = "commandChar"]
    ELSE IF a.pcConnect = "commandChar"
    THEN [a EXCEPT !.pcConnect = "responseChar"]
    ELSE IF a.pcConnect = "responseChar"
    THEN [a EXCEPT !.pcConnect = "notifications"]
    ELSE [a EXCEPT !.notifying = a.link,
                   !.listeners = @ + 1,
                   !.connectedDevice = "sparky",
                   !.commandCharacteristic = a.link,
                   !.responseCharacteristic = a.link,
                   !.pcConnect = "idle"]

\* BluetoothService.connectToDevice: the promise it awaits is rejected; the
\* catch block throws and no field is written.
rejected(a) == [a EXCEPT !.pcConnect = "idle"]

\* The connection ends: the browser's objects of that connection are dead.
dropped(a) == [a EXCEPT !.connected = FALSE, !.notifying = 0, !.listeners = 0]

\* A disconnect that keeps the response characteristic.
disconnect_keepResponse(a) ==
    [(IF isConnected(a) THEN dropped(a) ELSE a) EXCEPT
        !.connectedDevice = "null",
        !.commandCharacteristic = 0,
        !.responseCallbacks = <<>>]

\* BluetoothService.disconnect
disconnect(a) ==
    [(IF isConnected(a) THEN dropped(a) ELSE a) EXCEPT
        !.connectedDevice = "null",
        !.commandCharacteristic = 0,
        !.responseCharacteristic = 0,
        !.responseCallbacks = <<>>]

\* commandCharacteristic.writeValue(data): rejected with a NetworkError
\* when the GATT server is not connected and with an InvalidStateError when
\* the characteristic is of an earlier connection.
writeValue(a) ==
    IF ~a.connected THEN "NetworkError"
    ELSE IF a.commandCharacteristic # a.link THEN "InvalidStateError"
    ELSE "written"

\* BluetoothService.sendCommand: how the call ends, "written" or the error
\* it throws.
sendCommand(a) ==
    IF a.commandCharacteristic = 0 THEN "No device connected"
    ELSE writeValue(a)

\* BluetoothService.onResponse
onResponse(a, callback) ==
    [a EXCEPT !.responseCallbacks = Append(@, callback)]

\* ------------------------------------------------------------------------
\* The inputs of the model
\* ------------------------------------------------------------------------

\* The command compileBlock builds for a wait block without parameters.
WaitCommand ==
    [type |-> "wait", action |-> "delay",
     parameters |-> [NoParameters EXCEPT !.time = 1000],
     duration |-> 1000, durationNinths |-> 0]

\* Commands as the compiler builds them for the other block kinds.
HostCommands ==
    { StopCommand, WaitCommand,
      [type |-> "move", action |-> "forward",
       parameters |-> [NoParameters EXCEPT !.speed = 50, !.duration = 1000],
       duration |-> 1000, durationNinths |-> 0],
      [type |-> "turn", action |-> "right",
       parameters |-> [NoParameters EXCEPT !.angle = 90, !.speed = 30],
       duration |-> 1000, durationNinths |-> 0],
      [type |-> "led", action |-> "off",
       parameters |-> [NoParameters EXCEPT !.color = sWhite,
                                           !.brightness = 100],
       duration |-> 100, durationNinths |-> 0],
      [type |-> "beep", action |-> "sound",
       parameters |-> [NoParameters EXCEPT !.frequency = 1000,
                                           !.duration = 500],
       duration |-> 500, durationNinths |-> 0],
      [type |-> "sensor", action |-> "read",
       parameters |-> [NoParameters EXCEPT !.sensor = sLowerDistance],
       duration |-> 200, durationNinths |-> 0] }

\* The lines the host's encoder puts on the wire.
EncodedLines == {encodeCommand(c) : c \in HostCommands}

\* TYPE:field:field:...
CommandLine(type, fields) ==
    LET RECURSIVE join(_)
        join(i) == IF i > Len(fields) THEN <<>>
                   ELSE sColon \o fields[i] \o join(i + 1)
    IN IF fields = <<>> THEN type \o sColon ELSE type \o join(1)

sABC == <<"a", "b", "c">>

sX == <<"X">>

\* Parameter texts: in range, under range, over range, not a number, too
\* long for a long.
SpeedTexts == {IntToStr(-1), IntToStr(50), IntToStr(101), sABC}

DurationTexts == {IntToStr(0), IntToStr(1000), IntToStr(20000)}

AngleTexts == {IntToStr(-90), IntToStr(90), IntToStr(100), IntToStr(400)}

TurnSpeedTexts ==
    {IntToStr(-30), IntToStr(30), <<"9", "9", "9", "9", "9", "9", "9", "9", "9", "9", "9">>}

BrightnessTexts == {IntToStr(-5), IntToStr(50), IntToStr(101), sX}

FrequencyTexts == {IntToStr(0), IntToStr(1000), IntToStr(9999)}

BeepDurationTexts == {IntToStr(10), IntToStr(500), IntToStr(5000)}

WaitTexts == {IntToStr(-1), IntToStr(1000), IntToStr(9000), sABC}

MoveLines ==
    {CommandLine(sMOVE, <<sF, s, t>>) :
        s \in SpeedTexts, t \in DurationTexts}
    \cup {CommandLine(sMOVE, <<sB, s, IntToStr(1000)>>) : s \in SpeedTexts}
    \cup {CommandLine(sMOVE, <<sF, IntToStr(50)>>),
          CommandLine(sMOVE, <<sX, IntToStr(50), IntToStr(1000)>>),
          CommandLine(sMOVE, <<>>)}

TurnLines ==
    {CommandLine(sTURN, <<dir, a, IntToStr(30)>>) :
        dir \in {sL, sR}, a \in AngleTexts}
    \cup {CommandLine(sTURN, <<sL, IntToStr(90), s>>) : s \in TurnSpeedTexts}
    \cup {CommandLine(sTURN, <<sL>>),
          CommandLine(sTURN, <<sF, IntToStr(90), IntToStr(30)>>)}

LedLines ==
    {CommandLine(sLED, <<sON, b, sWhite>>) : b \in BrightnessTexts}
    \cup {CommandLine(sLED, <<sON>>), CommandLine(sLED, <<sOFF>>),
          CommandLine(sLED, <<<<"o", "n">>, IntToStr(50)>>),
          CommandLine(sLED, <<>>)}

BeepLines ==
    {CommandLine(sBEEP, <<f, IntToStr(500)>>) : f \in FrequencyTexts}
    \cup {CommandLine(sBEEP, <<IntToStr(1000), t>>) : t \in BeepDurationTexts}
    \cup {CommandLine(sBEEP, <<IntToStr(0), IntToStr(10)>>),
          CommandLine(sBEEP, <<>>)}

SensorLines ==
    {CommandLine(sSENSOR, <<t>>) :
        t \in {sDISTANCE, sLIGHT, sOBSTACLE, sLowerDistance,
               <<"T", "E", "M", "P">>}}

WaitLines == {CommandLine(sWAIT, <<t>>) : t \in WaitTexts}

\* Lines that are no command: no colon, an unknown TYPE, only white space,
\* nothing at all.
OtherLines ==
    {CommandLine(sSTOP, <<>>), sSTOP, <<"F", "O", "O">>,
     <<"N", "O", "P", "E", ":", "1">>, <<" ">>, <<>>,
     <<" ">> \o CommandLine(sSTOP, <<>>) \o <<"\n">>}


\* The lines a session is made of: one of each kind of command, of error
\* and of host-encoded line.
Lines ==
    { CommandLine(sMOVE, <<sF, IntToStr(50), IntToStr(1000)>>),
      CommandLine(sMOVE, <<sB, IntToStr(101), IntToStr(20000)>>),
      CommandLine(sTURN, <<sR, IntToStr(90), IntToStr(30)>>),
      CommandLine(sSTOP, <<>>),
      encodeCommand(StopCommand),
      CommandLine(sLED, <<sON, IntToStr(50), sWhite>>),
      CommandLine(sLED, <<sOFF>>),
      CommandLine(sBEEP, <<IntToStr(1000), IntToStr(500)>>),
      CommandLine(sSENSOR, <<sOBSTACLE>>),
      CommandLine(sSENSOR, <<<<"T", "E", "M", "P">>>>),
      CommandLine(sWAIT, <<IntToStr(1000)>>),
      CommandLine(sMOVE, <<sX, IntToStr(50), IntToStr(1000)>>),
      CommandLine(sLED, <<<<"B", "L", "I", "N", "K">>>>),
      <<"F", "O", "O">> }

\* Every line above: each is tried on the device in every state a session
\* reaches.
ProbeLines ==
    MoveLines \cup TurnLines \cup LedLines \cup BeepLines \cup SensorLines
    \cup WaitLines \cup OtherLines \cup EncodedLines \cup Lines

\* A block of the palette with its parameters.  given names the numeric
\* parameters the block carries: those that are not 0, and those WithZero
\* adds, which the block carries with the value 0.
Block(id, speed, duration, angle, brightness) ==
    [id |-> id,
     parameters |-> [speed |-> speed, duration |-> duration, angle |-> angle,
                     brightness |-> brightness, color |-> <<>>],
     given |-> {n \in {"speed", "duration", "angle", "brightness"} :
                   [speed |-> speed, duration |-> duration, angle |-> angle,
                    brightness |-> brightness][n] # 0}]

\* The block with the parameter `name` present and equal to 0.
WithZero(block, name) == [block EXCEPT !.given = @ \cup {name}]

sTurnLeftId == <<"t", "u", "r", "n", "-", "l", "e", "f", "t">>

sTurnRightId == <<"t", "u", "r", "n", "-", "r", "i", "g", "h", "t">>

\* How many blocks a program of the model has at most.
MaxBlocks == 2

\* The blocks a program is built from: each kind with its parameters absent,
\* in range, under and over the range, kinds the compiler does not know,
\* and known kinds with a direction, a state or a sensor it does not know.
PaletteBlocks ==
    { Block(<<"m", "o", "v", "e", "-", "f", "o", "r", "w", "a", "r", "d">>, 0, 0, 0, 0),
      Block(<<"m", "o", "v", "e", "-", "f", "o", "r", "w", "a", "r", "d">>, -1, 500, 0, 0),
      Block(<<"m", "o", "v", "e", "-", "f", "o", "r", "w", "a", "r", "d">>, 101, 10000, 0, 0),
      Block(<<"m", "o", "v", "e", "-", "f", "o", "r", "w", "a", "r", "d">>, 150, 20000, 0, 0),
      Block(<<"m", "o", "v", "e", "-", "b", "a", "c", "k", "w", "a", "r", "d">>, 100, -5, 0, 0),
      Block(<<"t", "u", "r", "n", "-", "l", "e", "f", "t">>, 0, 0, 0, 0),
      Block(<<"t", "u", "r", "n", "-", "l", "e", "f", "t">>, -1, 0, -90, 0),
      Block(<<"t", "u", "r", "n", "-", "r", "i", "g", "h", "t">>, 101, 0, 400, 0),
      Block(<<"t", "u", "r", "n", "-", "r", "i", "g", "h", "t">>, 30, 0, 100, 0),
      WithZero(Block(sTurnLeftId, 30, 0, 0, 0), "angle"),
      Block(sTurnLeftId, 30, 0, 30, 0),
      Block(sTurnLeftId, 30, 0, 45, 0),
      Block(sTurnRightId, 30, 0, 46, 0),
      Block(sTurnRightId, 30, 0, 90, 0),
      Block(sTurnLeftId, 30, 0, 180, 0),
      Block(sTurnRightId, 30, 0, 360, 0),
      Block(<<"m", "o", "v", "e", "-", "s", "i", "d", "e", "w", "a", "y", "s">>, 50, 1000, 0, 0),
      Block(<<"t", "u", "r", "n", "-", "a", "r", "o", "u", "n", "d">>, 30, 0, 180, 0),
      Block(<<"l", "e", "d", "-", "b", "l", "i", "n", "k">>, 0, 0, 0, 50),
      Block(<<"r", "e", "a", "d", "-", "t", "e", "m", "p", "e", "r", "a", "t", "u", "r", "e">>, 0, 0, 0, 0),
      Block(<<"s", "t", "o", "p", "-", "m", "o", "t", "o", "r", "s">>, 0, 0, 0, 0),
      Block(<<"l", "e", "d", "-", "o", "n">>, 0, 0, 0, 150),
      Block(<<"l", "e", "d", "-", "o", "n">>, 0, 0, 0, -5),
      Block(<<"l", "e", "d", "-", "o", "f", "f">>, 0, 0, 0, 0),
      Block(<<"b", "e", "e", "p", "-", "s", "o", "u", "n", "d">>, 0, 0, 0, 0),
      Block(<<"w", "a", "i", "t", "-", "d", "e", "l", "a", "y">>, 0, 0, 0, 0),
      Block(<<"w", "a", "i", "t", "-", "d", "e", "l", "a", "y">>, 0, 9000, 0, 0),
      Block(<<"r", "e", "a", "d", "-", "d", "i", "s", "t", "a", "n", "c", "e">>, 0, 0, 0, 0),
      Block(<<"c", "h", "e", "c", "k", "-", "o", "b", "s", "t", "a", "c", "l", "e">>, 0, 0, 0, 0),
      Block(<<"r", "e", "a", "d", "-", "l", "i", "g", "h", "t">>, 0, 0, 0, 0),
      Block(<<"j", "u", "m", "p", "-", "h", "i", "g", "h">>, 50, 1000, 0, 0),
      Block(<<"d", "a", "n", "c", "e">>, 0, 0, 0, 0) }

\* PolicySpec: how many move blocks and how many other blocks a program has
\* at most.
MaxMoves == 22

MaxOthers == 52

\* The list of n copies of x.
Repeat(x, n) == [i \in 1..n |-> x]

\* The programs validateProgram is asked about: up to MaxMoves default
\* forward moves followed by up to MaxOthers 90-degree right turns.
Programs ==
    { Repeat(Block(<<"m", "o", "v", "e", "-", "f", "o", "r", "w", "a", "r", "d">>, 0, 0, 0, 0), n)
          \o Repeat(Block(sTurnRightId, 30, 0, 90, 0), m) :
      n \in 0..MaxMoves, m \in 0..MaxOthers }

\* AdapterSpec: how many times connectToDevice is called at most.
MaxConnects == 2

\* A RobotCommand of the host with the given fields.
Command(type, action, parameters) ==
    [type |-> type, action |-> action, parameters |-> parameters,
     duration |-> parameters.duration, durationNinths |-> 0]

\* CodecSpec: the move, turn, LED-on and beep commands with every field at
\* an end of its range or inside it.
InRangeCommands ==
    {Command("move", action,
             [NoParameters EXCEPT !.speed = speed, !.duration = time]) :
        action \in {"forward", "backward"}, speed \in {0, 50, 100},
        time \in {0, 1000, 10000}}
    \cup {Command("turn", action,
                  [NoParameters EXCEPT !.angle = angle, !.speed = speed]) :
             action \in {"left", "right"}, angle \in {0, 90, 360},
             speed \in {0, 30, 100}}
    \cup {Command("led", "on",
                  [NoParameters EXCEPT !.brightness = brightness,
                                       !.color = sWhite]) :
             brightness \in {0, 50, 100}}
    \cup {Command("beep", "sound",
                  [NoParameters EXCEPT !.frequency = hertz,
                                       !.duration = time]) :
             hertz \in {100, 1000, 5000}, time \in {50, 500, 3000}}

\* ParserSpec: the longest parameter text.
MaxText == 3

\* ParserSpec: the parameter texts: every text of up to MaxText characters
\* out of ":", "F" and "5", the empty text, texts that end in a colon and
\* texts with adjacent colons among them.
FieldTexts ==
    UNION {[1..n -> {":", "F", "5"}] : n \in 0..MaxText}

\* PipelineSpec: how many notifications wait for their dispatch at most.
MaxInbox == 2

\* AdapterSpec: the commands the host sends.
AdapterLines ==
    { CommandLine(sSTOP, <<>>),
      CommandLine(sMOVE, <<sF, IntToStr(50), IntToStr(1000)>>) }

\* The devices connectToDevice is called with: the one requestDevice
\* returned, and one of simulateDeviceScan, which has no BluetoothDevice.
Devices == {"sparky", "simulated"}

\* What the sensors read when asked: no echo and darkness, an echo from
\* about 15 cm, an echo from about 25 cm in full light.
Environments ==
    {[echo |-> 0, light |-> 0], [echo |-> 882, light |-> 2048],
     [echo |-> 1471, light |-> 4095]}

\* Only a SENSOR line reads the environment.
EnvironmentsFor(line) ==
    IF substring(trim(line), 0, 6) = sSENSOR THEN Environments
    ELSE {[echo |-> 0, light |-> 0]}

\* The clock advances by a millisecond or by a second at a time.
Deltas == {1, 1000}

\* millis() when the model starts to watch the device: just booted, or two
\* seconds before the 32-bit counter wraps (49.7 days after boot).
StartTimes == {UZero, U32(Half - 1, Half - 2000)}

\* ------------------------------------------------------------------------
\* State
\* ------------------------------------------------------------------------

VARIABLES
    firmware,        \* "ble" or "serial": which sketch runs on the device
    millis,          \* millis(), an unsigned long
    ticks,           \* how often the clock has advanced (bounds the model)
    pwm,             \* the duty written to each PWM channel
    tone,            \* the tone frequency written to each PWM channel
    ledPin,          \* serial firmware: the level of LED_PIN
    buzzer,          \* serial firmware: the last tone() on BUZZER_PIN
    ledState,
    ledBrightness,
    currentSpeed,
    commandTimeout,  \* unsigned long; 0 is "no timeout armed"
    deviceConnected,
    pc,              \* BLE callback task: "idle", or "beep" inside delay()
    delayLeft,       \* milliseconds the callback's delay() still has to run
    frequency,       \* handleBeepCommand's locals while it is in delay()
    duration,
    out,             \* the responses sent to the host by the last step
    event,           \* the last step: its kind, its input and whether a
                     \* motor channel was energized when it began
    pcLoop,          \* RaceSpec: where loop() stands in its timeout check
    written,         \* RaceSpec: how many lines the client has written
    local,           \* RaceSpec: the locals of the handler in progress
    characteristic,  \* RaceSpec: the value held by pResponseCharacteristic
    blocks,          \* HostSpec: the program in the workspace, a list of blocks
    commands,        \* HostSpec: what compileProgram returned for it
    console,         \* HostSpec: what the compiler wrote with console.warn
    pcHost,          \* HostSpec: "edit", or "compiled" once compileProgram ran
    validation,      \* PolicySpec: what validateProgram returned last, if
                     \* it was called, and the list it was called with
    adapter,         \* AdapterSpec: the fields of BluetoothService and the
                     \* browser's GATT connection to the device
    heard,           \* AdapterSpec: the responses of the last step that
                     \* reached handleResponse
    lost,            \* AdapterSpec: the responses the device sent in the
                     \* last step that reached no listener
    result,          \* AdapterSpec: how the last call of the adapter ended
    inbox            \* PipelineSpec: the notifications the browser has got
                     \* and not yet dispatched to the listener

\* The device's side and the host's side of the state.
deviceVars ==
    <<firmware, millis, ticks, pwm, tone, ledPin, buzzer, ledState,
      ledBrightness, currentSpeed, commandTimeout, deviceConnected, pc,
      delayLeft, frequency, duration, out, event, pcLoop,
      written, local, characteristic>>

compilerVars == <<blocks, commands, console, pcHost, validation>>

adapterVars == <<adapter, heard, lost, result, inbox>>

hostVars == <<compilerVars, adapterVars>>

vars == <<deviceVars, hostVars>>

\* The device as the handlers see it, with nothing sent yet.
Device ==
    [firmware |-> firmware, millis |-> millis, pwm |-> pwm, tone |-> tone,
     ledPin |-> ledPin, buzzer |-> buzzer, ledState |-> ledState,
     ledBrightness |-> ledBrightness, currentSpeed |-> currentSpeed,
     commandTimeout |-> commandTimeout, deviceConnected |-> deviceConnected,
     pc |-> pc, delayLeft |-> delayLeft, frequency |-> frequency,
     duration |-> duration, out |-> <<>>]

\* The next state is the device as a handler left it.
Becomes(d) ==
    /\ firmware' = d.firmware
    /\ millis' = d.millis
    /\ pwm' = d.pwm
    /\ tone' = d.tone
    /\ ledPin' = d.ledPin
    /\ buzzer' = d.buzzer
    /\ ledState' = d.ledState
    /\ ledBrightness' = d.ledBrightness
    /\ currentSpeed' = d.currentSpeed
    /\ commandTimeout' = d.commandTimeout
    /\ deviceConnected' = d.deviceConnected
    /\ pc' = d.pc
    /\ delayLeft' = d.delayLeft
    /\ frequency' = d.frequency
    /\ duration' = d.duration
    /\ out' = d.out

\* No handler is in progress.
NoLocal ==
    [kind |-> "none",
     args |-> [direction |-> <<>>, speed |-> 0, duration |-> 0, angle |-> 0]]

Channels == {"L1", "L2", "R1", "R2", "LED"}

Motors == {"L1", "L2", "R1", "R2"}

\* The sensors when nothing reads them: no echo, darkness.
NoEcho == [echo |-> 0, light |-> 0]

\* What a step records of itself; env is what the sensors had to show
\* during a step that executed a command.
Event(op, line) ==
    [op |-> op, line |-> line, moving |-> \E c \in Motors : pwm[c] # 0,
     env |-> NoEcho]

\* After setup(): every channel written 0, nothing armed, no client.  The
\* serial sketch's setup ends with its welcome tone on the buzzer.
DeviceInit ==
    /\ firmware \in {"ble", "serial"}
    /\ millis \in StartTimes
    /\ ticks = 0
    /\ pwm = [c \in Channels |-> 0]
    /\ tone = [c \in Channels |-> 0]
    /\ ledPin = FALSE
    /\ buzzer = IF firmware = "serial" THEN [freq |-> 1000, ms |-> 500]
                ELSE [freq |-> 0, ms |-> 0]
    /\ ledState = FALSE
    /\ ledBrightness = 0
    /\ currentSpeed = 0
    /\ commandTimeout = UZero
    /\ deviceConnected = FALSE
    /\ pc = "idle"
    /\ delayLeft = 0
    /\ frequency = 0
    /\ duration = 0
    /\ out = <<>>
    /\ event = [op |-> "setup", line |-> <<>>, moving |-> FALSE,
                env |-> NoEcho]
    /\ pcLoop = "test"
    /\ written = 0
    /\ local = NoLocal
    /\ characteristic = <<>>

\* The host with an empty workspace, nothing compiled or validated.
HostIdle ==
    /\ commands = <<>>
    /\ console = <<>>
    /\ pcHost = "edit"
    /\ validation = <<>>

\* BluetoothService after construction, with no call made yet.
AdapterIdle ==
    /\ adapter = NoAdapter
    /\ heard = <<>>
    /\ lost = <<>>
    /\ result = [op |-> "none", outcome |-> "none", session |-> FALSE,
                 subscribed |-> FALSE]
    /\ inbox = <<>>

Init == DeviceInit /\ HostIdle /\ AdapterIdle /\ blocks = <<>>

\* ------------------------------------------------------------------------
\* Steps.  The BLE stack runs its callbacks one at a time in its own task;
\* loop() runs in another.  Here a callback and a pass of loop() are one
\* step each, except that a callback blocked in delay() lets time pass.
\* ------------------------------------------------------------------------

\* A client connects (BLE).
OnConnect ==
    /\ UNCHANGED hostVars
    /\ firmware = "ble" /\ pc = "idle" /\ ~deviceConnected
    /\ Becomes(onConnect(Device))
    /\ event' = Event("connect", <<>>)
    /\ UNCHANGED <<ticks, pcLoop, written, local, characteristic>>

\* The client disconnects or the link drops (BLE).
OnDisconnect ==
    /\ UNCHANGED hostVars
    /\ firmware = "ble" /\ pc = "idle" /\ deviceConnected
    /\ Becomes(onDisconnect(Device))
    /\ event' = Event("disconnect", <<>>)
    /\ UNCHANGED <<ticks, pcLoop, written, local, characteristic>>

\* The connected client writes a value to the command characteristic (BLE).
OnWrite(value, env) ==
    /\ UNCHANGED hostVars
    /\ firmware = "ble" /\ pc = "idle" /\ deviceConnected
    /\ Becomes(onWrite(Device, value, env))
    /\ event' = [Event("write", value) EXCEPT !.env = env]
    /\ UNCHANGED <<ticks, pcLoop, written, local, characteristic>>

\* delay() in handleBeepCommand returns (BLE).
BeepEnd ==
    /\ UNCHANGED hostVars
    /\ firmware = "ble" /\ pc = "beep" /\ delayLeft = 0
    /\ Becomes(handleBeepCommandBLE_end(Device))
    /\ event' = Event("beepEnd", <<>>)
    /\ UNCHANGED <<ticks, pcLoop, written, local, characteristic>>

\* One pass of loop() (BLE).
Loop ==
    /\ UNCHANGED hostVars
    /\ firmware = "ble"
    /\ Becomes(loopBLE(Device))
    /\ event' = Event("loop", <<>>)
    /\ UNCHANGED <<ticks, pcLoop, written, local, characteristic>>

\* One pass of loop() (serial), with or without a line to read.  A WAIT
\* advances the clock inside the pass, which counts against MaxTicks.
SerialLoop(input, env) ==
    /\ UNCHANGED hostVars
    /\ firmware = "serial"
    /\ LET d == loopSerial(Device, input, env)
       IN /\ d.millis # millis => ticks < MaxTicks
          /\ Becomes(d)
          /\ ticks' = IF d.millis # millis THEN ticks + 1 ELSE ticks
    /\ event' = [Event("serialLoop",
                        IF input = <<>> THEN <<>> ELSE input[1])
                     EXCEPT !.env = env]
    /\ UNCHANGED <<pcLoop, written, local, characteristic>>

\* Time passes.
Tick(delta) ==
    /\ UNCHANGED hostVars
    /\ ticks < MaxTicks
    /\ ticks' = ticks + 1
    /\ millis' = UAdd(millis, delta)
    /\ delayLeft' = IF delayLeft > delta THEN delayLeft - delta ELSE 0
    /\ out' = <<>>
    /\ event' = Event("tick", <<>>)
    /\ UNCHANGED <<firmware, pwm, tone, ledPin, buzzer, ledState,
                   ledBrightness, currentSpeed, commandTimeout,
                   deviceConnected, pc, frequency, duration, pcLoop,
                   written, local, characteristic>>

Next ==
    \/ OnConnect
    \/ OnDisconnect
    \/ \E value \in Lines : \E env \in EnvironmentsFor(value) :
           OnWrite(value, env)
    \/ BeepEnd
    \/ Loop
    \/ \E value \in Lines : \E env \in EnvironmentsFor(value) :
           SerialLoop(<<value>>, env)
    \/ SerialLoop(<<>>, [echo |-> 0, light |-> 0])
    \/ \E delta \in Deltas : Tick(delta)

Spec == Init /\ [][Next]_vars

\* ------------------------------------------------------------------------
\* RaceSpec: the BLE firmware with its two tasks interleaved statement by
\* statement.  loop() tests the timeout, stops the motors, clears
\* commandTimeout and sends TIMEOUT:MOTOR_STOP, the handler of a MOVE, TURN
\* or STOP written by the client drives or stops the motors, sets
\* commandTimeout and answers, and sendResponse is itself two steps, the
\* characteristic's setValue() and its notify().  Nothing orders a step of one
\* task against a step of the other: the sketch takes no lock and
\* commandTimeout is a plain global.  A handler, and the body of loop()'s
\* check, run to their end within one quantum of the clock, and a command
\* is written only while the clock can still pass its deadline.  The client
\* writes a bounded number of lines and then falls silent.
\* ------------------------------------------------------------------------

\* One quantum of the clock: longer than the duration of any line written.
Quantum == 1001

\* How many lines the client writes.
MaxWrites == 3

RaceLines ==
    { CommandLine(sMOVE, <<sF, IntToStr(50), IntToStr(1000)>>),
      CommandLine(sTURN, <<sR, IntToStr(90), IntToStr(30)>>),
      CommandLine(sSTOP, <<>>) }

RaceInit == Init /\ firmware = "ble" /\ millis = UZero

\* sendResponse, its first statement: pResponseCharacteristic->setValue(),
\* done only while a client is connected.  d is the device as the caller's
\* sendResponse left it, with the response in d.out.
setValue(d) == IF d.out = <<>> THEN characteristic ELSE d.out[1]

\* sendResponse, its second statement: pResponseCharacteristic->notify()
\* sends whatever value the characteristic holds by then.
notify(d) == [d EXCEPT !.out = <<characteristic>>]

\* onWrite up to the motors: the line is parsed and the motors are driven
\* (MOVE, TURN) or stopped (STOP).
WriteDrive(value) ==
    /\ UNCHANGED hostVars
    /\ pc = "idle" /\ deviceConnected /\ ticks < MaxTicks
    /\ written < MaxWrites
    /\ written' = written + 1
    /\ LET command == trim(value)
           type == commandType(command)
           params == commandParams(command)
       IN \/ /\ type = sMOVE
             /\ Becomes([moveDrive(Device, moveArgs(params)) EXCEPT
                            !.pc = "arm"])
             /\ local' = [kind |-> "move", args |-> moveArgs(params)]
          \/ /\ type = sTURN
             /\ Becomes([turnDrive(Device, turnArgs(params)) EXCEPT
                            !.pc = "arm"])
             /\ local' = [kind |-> "turn", args |-> turnArgs(params)]
          \/ /\ type = sSTOP
             /\ Becomes([stopMotors(Device) EXCEPT !.pc = "disarm"])
             /\ local' = [NoLocal EXCEPT !.kind = "stop"]
    /\ event' = Event("writeDrive", value)
    /\ UNCHANGED <<ticks, pcLoop, characteristic>>

\* handleMoveCommand, handleTurnCommand: commandTimeout = millis() + duration
WriteArm ==
    /\ UNCHANGED hostVars
    /\ pc = "arm"
    /\ Becomes([armTimeout(Device, local.args) EXCEPT !.pc = "answer"])
    /\ event' = Event("writeArm", <<>>)
    /\ UNCHANGED <<ticks, pcLoop, written, local, characteristic>>

\* handleStopCommand: commandTimeout = 0
WriteDisarm ==
    /\ UNCHANGED hostVars
    /\ pc = "disarm"
    /\ Becomes([disarmTimeout(Device) EXCEPT !.pc = "answer"])
    /\ event' = Event("writeDisarm", <<>>)
    /\ UNCHANGED <<ticks, pcLoop, written, local, characteristic>>

\* The handler sets currentSpeed and calls sendResponse, which sets the
\* characteristic's value to the answer.
WriteAnswer ==
    /\ UNCHANGED hostVars
    /\ pc = "answer"
    /\ LET d == CASE local.kind = "move" -> moveAnswer(Device, local.args)
                  [] local.kind = "turn" -> turnAnswer(Device, local.args)
                  [] OTHER -> stopAnswer(Device)
       IN /\ characteristic' = setValue(d)
          /\ Becomes([d EXCEPT !.out = <<>>,
                               !.pc = IF d.out = <<>> THEN "idle"
                                      ELSE "notify"])
          /\ local' = IF d.out = <<>> THEN NoLocal ELSE local
    /\ event' = Event("writeAnswer", <<>>)
    /\ UNCHANGED <<ticks, pcLoop, written>>

\* sendResponse in the handler: notify(); the handler returns.
WriteNotify ==
    /\ UNCHANGED hostVars
    /\ pc = "notify"
    /\ Becomes([notify(Device) EXCEPT !.pc = "idle"])
    /\ local' = NoLocal
    /\ event' = Event("writeNotify", <<>>)
    /\ UNCHANGED <<ticks, pcLoop, written, characteristic>>

\* loop(): if (commandTimeout > 0 && millis() > commandTimeout)
LoopTest ==
    /\ UNCHANGED hostVars
    /\ pcLoop = "test"
    /\ pcLoop' = IF timeoutElapsed(Device) THEN "stop" ELSE "test"
    /\ Becomes(Device)
    /\ event' = Event("loopTest", <<>>)
    /\ UNCHANGED <<ticks, written, local, characteristic>>

\* loop(): stopMotors()
LoopStop ==
    /\ UNCHANGED hostVars
    /\ pcLoop = "stop"
    /\ pcLoop' = "clear"
    /\ Becomes(stopMotors(Device))
    /\ event' = Event("loopStop", <<>>)
    /\ UNCHANGED <<ticks, written, local, characteristic>>

\* loop(): commandTimeout = 0
LoopClear ==
    /\ UNCHANGED hostVars
    /\ pcLoop = "clear"
    /\ pcLoop' = "send"
    /\ Becomes(disarmTimeout(Device))
    /\ event' = Event("loopClear", <<>>)
    /\ UNCHANGED <<ticks, written, local, characteristic>>

\* loop(): sendResponse("TIMEOUT:MOTOR_STOP") sets the characteristic's
\* value.
LoopSend ==
    /\ UNCHANGED hostVars
    /\ pcLoop = "send"
    /\ LET d == sendResponse(Device, sTIMEOUT_MOTOR_STOP)
       IN /\ characteristic' = setValue(d)
          /\ pcLoop' = IF d.out = <<>> THEN "test" ELSE "notify"
          /\ Becomes([d EXCEPT !.out = <<>>])
    /\ event' = Event("loopSend", <<>>)
    /\ UNCHANGED <<ticks, written, local>>

\* sendResponse in loop(): notify()
LoopNotify ==
    /\ UNCHANGED hostVars
    /\ pcLoop = "notify"
    /\ pcLoop' = "test"
    /\ Becomes(notify(Device))
    /\ event' = Event("loopNotify", <<>>)
    /\ UNCHANGED <<ticks, written, local, characteristic>>

\* A client connects: the welcome sequence ends with sendResponse("READY:...").
RaceConnect ==
    /\ UNCHANGED hostVars
    /\ pc = "idle" /\ ~deviceConnected
    /\ Becomes(onConnect(Device))
    /\ characteristic' = setValue(onConnect(Device))
    /\ event' = Event("connect", <<>>)
    /\ UNCHANGED <<ticks, pcLoop, written, local>>

\* The clock advances by a quantum, with no handler in progress and loop()
\* not in the middle of its check.
RaceTick ==
    /\ pc = "idle" /\ pcLoop = "test"
    /\ Tick(Quantum)

\* A step of the callback task that needs no input.
WriteStep == WriteArm \/ WriteDisarm \/ WriteAnswer \/ WriteNotify

\* A step of the loop task.
LoopStep == LoopTest \/ LoopStop \/ LoopClear \/ LoopSend \/ LoopNotify

RaceNext ==
    \/ RaceConnect
    \/ OnDisconnect
    \/ \E value \in RaceLines : WriteDrive(value)
    \/ WriteStep
    \/ LoopStep
    \/ RaceTick

\* Both tasks are scheduled again and again and the clock keeps running.
RaceSpec ==
    /\ RaceInit
    /\ [][RaceNext]_vars
    /\ WF_vars(WriteStep)
    /\ WF_vars(LoopStep)
    /\ WF_vars(RaceTick)

\* ------------------------------------------------------------------------
\* HostSpec: the host builds a program block by block and compiles it.
\* ------------------------------------------------------------------------

HostInit == Init /\ firmware = "ble" /\ millis = UZero

\* A block is dropped at the end of the program.
AddBlock(block) ==
    /\ pcHost = "edit" /\ Len(blocks) < MaxBlocks
    /\ blocks' = Append(blocks, block)
    /\ UNCHANGED <<commands, console, pcHost, validation>>
    /\ UNCHANGED <<deviceVars, adapterVars>>

\* BlockToCommandCompiler.compileProgram(blocks), for the first time or
\* again.
CompileProgram ==
    /\ pcHost \in {"edit", "compiled"}
    /\ commands' = compileProgram(blocks)
    /\ console' = compileProgramWarnings(blocks)
    /\ pcHost' = "compiled"
    /\ UNCHANGED <<blocks, validation>>
    /\ UNCHANGED <<deviceVars, adapterVars>>

\* The workspace is cleared for a new program.
NewProgram ==
    /\ pcHost = "compiled"
    /\ blocks' = <<>>
    /\ commands' = <<>>
    /\ console' = <<>>
    /\ pcHost' = "edit"
    /\ validation' = <<>>
    /\ UNCHANGED <<deviceVars, adapterVars>>

HostNext ==
    \/ \E block \in PaletteBlocks : AddBlock(block)
    \/ CompileProgram
    \/ NewProgram

HostSpec == HostInit /\ [][HostNext]_vars

\* ------------------------------------------------------------------------
\* PolicySpec: a program of any length is compiled and validated, in either
\* order and any number of times.
\* ------------------------------------------------------------------------

PolicyInit ==
    /\ DeviceInit /\ firmware = "ble" /\ millis = UZero
    /\ HostIdle
    /\ AdapterIdle
    /\ blocks \in Programs

\* BlockToCommandCompiler.validateProgram(commands), called with the list
\* compileProgram returned last (the empty list before it ran).
ValidateProgram ==
    /\ validation' = <<[valid |-> validateProgram(commands).valid,
                        errors |-> validateProgram(commands).errors,
                        input |-> commands]>>
    /\ commands' = validateProgram(commands).commands
    /\ UNCHANGED <<blocks, console, pcHost>>
    /\ UNCHANGED <<deviceVars, adapterVars>>

PolicyNext ==
    \/ CompileProgram
    \/ ValidateProgram

PolicySpec == PolicyInit /\ [][PolicyNext]_vars

\* ------------------------------------------------------------------------
\* AdapterSpec: the host's Bluetooth adapter and the BLE firmware.  The
\* adapter's calls and the awaits of connectToDevice are steps of the host;
\* the firmware's callbacks and loop() are steps of the device.  A response
\* the device sends reaches handleResponse when the host is subscribed.
\* ------------------------------------------------------------------------

AdapterInit == Init /\ firmware = "ble" /\ millis = UZero

\* How a call ended, and whether a session was active and the host
\* subscribed when it was made.
Result(op, outcome) ==
    [op |-> op, outcome |-> outcome, session |-> isConnected(adapter),
     subscribed |-> Subscribed(adapter)]

\* The responses of this step go to handleResponse or nowhere.
Deliver ==
    /\ heard' = IF Subscribed(adapter) THEN out' ELSE <<>>
    /\ lost' = IF Subscribed(adapter) THEN <<>> ELSE out'

\* The device's side of the end of a connection: onDisconnect, after the
\* onConnect that was still to run if the connection was that short.
DeviceDrops ==
    /\ Becomes([onDisconnect(IF deviceConnected THEN Device
                             ELSE onConnect(Device)) EXCEPT !.out = <<>>])
    /\ event' = Event("disconnect", <<>>)
    /\ UNCHANGED <<ticks, pcLoop, written, local, characteristic>>

\* bluetoothService.connectToDevice(device) is called.
ConnectToDevice(device) ==
    /\ adapter.pcConnect = "idle" /\ adapter.calls < MaxConnects
    /\ IF device = "simulated"
       THEN /\ adapter' = [adapter EXCEPT !.calls = @ + 1]
            /\ result' = Result("connectToDevice", "Invalid device")
       ELSE /\ adapter' = connectToDevice(adapter)
            /\ UNCHANGED result
    /\ heard' = <<>> /\ lost' = <<>>
    /\ UNCHANGED <<deviceVars, compilerVars, inbox>>

\* The promise connectToDevice awaits is fulfilled.
ConnectResolved ==
    /\ adapter.pcConnect # "idle"
    /\ adapter.pcConnect = "gatt" \/ adapter.connected
    /\ adapter' = resolved(adapter)
    /\ result' = IF adapter'.pcConnect = "idle"
                 THEN Result("connectToDevice", "connected") ELSE result
    /\ heard' = <<>> /\ lost' = <<>>
    /\ UNCHANGED <<deviceVars, compilerVars, inbox>>

\* The promise connectToDevice awaits is rejected.
ConnectRejected ==
    /\ adapter.pcConnect # "idle"
    /\ adapter' = rejected(adapter)
    /\ result' = Result("connectToDevice", "failed")
    /\ heard' = <<>> /\ lost' = <<>>
    /\ UNCHANGED <<deviceVars, compilerVars, inbox>>

\* The device's onConnect callback runs for the connection made.
DeviceOnConnect ==
    /\ adapter.connected /\ ~deviceConnected /\ pc = "idle"
    /\ Becomes(onConnect(Device))
    /\ event' = Event("connect", <<>>)
    /\ Deliver
    /\ UNCHANGED <<ticks, pcLoop, written, local, characteristic>>
    /\ UNCHANGED <<adapter, result, compilerVars, inbox>>

\* The connection is lost.
LinkDrop ==
    /\ adapter.connected /\ pc = "idle"
    /\ adapter' = dropped(adapter)
    /\ DeviceDrops
    /\ heard' = <<>> /\ lost' = <<>>
    /\ UNCHANGED <<result, compilerVars, inbox>>

\* bluetoothService.disconnect() is called.
Disconnect ==
    /\ pc = "idle"
    /\ adapter' = disconnect(adapter)
    /\ result' = Result("disconnect", "resolved")
    /\ IF adapter.connected /\ ~adapter'.connected
       THEN DeviceDrops
       ELSE UNCHANGED deviceVars
    /\ heard' = <<>> /\ lost' = <<>>
    /\ UNCHANGED <<compilerVars, inbox>>

\* bluetoothService.sendCommand({data: line}) is called; a write that goes
\* through runs the device's onWrite.
SendCommand(line) ==
    /\ result' = Result("sendCommand", sendCommand(adapter))
    /\ IF sendCommand(adapter) = "written"
       THEN /\ deviceConnected /\ pc = "idle"
            /\ Becomes(onWrite(Device, line, NoEcho))
            /\ event' = Event("write", line)
            /\ Deliver
            /\ UNCHANGED <<ticks, pcLoop, written, local, characteristic>>
       ELSE /\ heard' = <<>> /\ lost' = <<>>
            /\ UNCHANGED deviceVars
    /\ UNCHANGED <<adapter, compilerVars, inbox>>

\* bluetoothService.onResponse(callback) is called by the page.
OnResponse ==
    /\ adapter.responseCallbacks = <<>>
    /\ adapter' = onResponse(adapter, "page")
    /\ result' = Result("onResponse", "returned")
    /\ heard' = <<>> /\ lost' = <<>>
    /\ UNCHANGED <<deviceVars, compilerVars, inbox>>

\* One pass of the device's loop().
DeviceLoop ==
    /\ Becomes(loopBLE(Device))
    /\ event' = Event("loop", <<>>)
    /\ Deliver
    /\ UNCHANGED <<ticks, pcLoop, written, local, characteristic>>
    /\ UNCHANGED <<adapter, result, compilerVars, inbox>>

AdapterNext ==
    \/ \E device \in Devices : ConnectToDevice(device)
    \/ ConnectResolved
    \/ ConnectRejected
    \/ DeviceOnConnect
    \/ LinkDrop
    \/ Disconnect
    \/ \E line \in AdapterLines : SendCommand(line)
    \/ OnResponse
    \/ DeviceLoop
    \/ \E delta \in Deltas : Tick(delta)

AdapterSpec == AdapterInit /\ [][AdapterNext]_vars

\* ------------------------------------------------------------------------
\* CodecSpec: one command of the host, encoded by encodeCommand and executed
\* by the device.
\* ------------------------------------------------------------------------

\* The command the host sends.
Sending == commands[1]

CodecInit ==
    /\ DeviceInit /\ AdapterIdle
    /\ blocks = <<>> /\ console = <<>> /\ validation = <<>>
    /\ pcHost = "compiled"
    /\ \E command \in InRangeCommands : commands = <<command>>

CodecNext ==
    \/ OnConnect
    \/ OnWrite(encodeCommand(Sending), NoEcho)
    \/ BeepEnd
    \/ Loop
    \/ SerialLoop(<<encodeCommand(Sending)>>, NoEcho)
    \/ SerialLoop(<<>>, NoEcho)
    \/ \E delta \in Deltas : Tick(delta)

CodecSpec == CodecInit /\ [][CodecNext]_vars

\* ------------------------------------------------------------------------
\* ParserSpec: the device executes MOVE lines whose parameters are any text
\* of up to MaxText characters out of a colon, a letter and a digit.
\* ------------------------------------------------------------------------

ParserNext ==
    \/ OnConnect
    \/ \E data \in FieldTexts : OnWrite(sMOVE \o sColon \o data, NoEcho)
    \/ Loop
    \/ \E data \in FieldTexts :
           SerialLoop(<<sMOVE \o sColon \o data>>, NoEcho)
    \/ SerialLoop(<<>>, NoEcho)
    \/ \E delta \in Deltas : Tick(delta)

ParserSpec == Init /\ [][ParserNext]_vars

\* ------------------------------------------------------------------------
\* PipelineSpec: the adapter with the write of a command and the dispatch
\* of the notification that answers it as two steps.  writeValue() is
\* fulfilled when the device has taken the write; the response comes as a
\* notification, which the browser dispatches to handleResponse in a task
\* of its own.
\* ------------------------------------------------------------------------

\* A notification as the browser holds it: the response, whether it
\* answers a command, and millis() when the device sent it.
Notification(response, solicited) ==
    [response |-> response, solicited |-> solicited, at |-> millis]

\* The responses of this step are queued for the listener, or go nowhere.
Receive(solicited) ==
    /\ inbox' = IF Subscribed(adapter)
                THEN inbox \o [i \in 1..Len(out') |->
                                  Notification(out'[i], solicited)]
                ELSE inbox
    /\ lost' = IF Subscribed(adapter) THEN <<>> ELSE out'
    /\ heard' = <<>>

\* bluetoothService.sendCommand({data: line}): the write is made and the
\* call returns; the device's answer is on its way.
SendWritten(line) ==
    /\ sendCommand(adapter) = "written"
    /\ Len(inbox) < MaxInbox
    /\ deviceConnected /\ pc = "idle"
    /\ result' = Result("sendCommand", "written")
    /\ Becomes(onWrite(Device, line, NoEcho))
    /\ event' = Event("write", line)
    /\ Receive(TRUE)
    /\ UNCHANGED <<ticks, pcLoop, written, local, characteristic>>
    /\ UNCHANGED <<adapter, compilerVars>>

\* The device's onConnect callback runs for the connection made.
PipelineOnConnect ==
    /\ adapter.connected /\ ~deviceConnected /\ pc = "idle"
    /\ Becomes(onConnect(Device))
    /\ event' = Event("connect", <<>>)
    /\ Receive(FALSE)
    /\ UNCHANGED <<ticks, pcLoop, written, local, characteristic>>
    /\ UNCHANGED <<adapter, result, compilerVars>>

\* One pass of the device's loop() in which the deadline has elapsed.
PipelineLoop ==
    /\ timeoutElapsed(Device) /\ Len(inbox) < MaxInbox
    /\ Becomes(loopBLE(Device))
    /\ event' = Event("loop", <<>>)
    /\ Receive(FALSE)
    /\ UNCHANGED <<ticks, pcLoop, written, local, characteristic>>
    /\ UNCHANGED <<adapter, result, compilerVars>>

\* The browser dispatches characteristicvaluechanged: handleResponse runs.
HandleResponse ==
    /\ inbox # <<>>
    /\ heard' = <<Head(inbox).response>>
    /\ inbox' = Tail(inbox)
    /\ lost' = <<>>
    /\ UNCHANGED <<adapter, result, deviceVars, compilerVars>>

PipelineNext ==
    \/ ConnectToDevice("sparky")
    \/ ConnectResolved
    \/ PipelineOnConnect
    \/ \E line \in AdapterLines : SendWritten(line)
    \/ PipelineLoop
    \/ HandleResponse
    \/ \E delta \in Deltas : Tick(delta)

PipelineSpec == AdapterInit /\ [][PipelineNext]_vars

\* ------------------------------------------------------------------------
\* Properties
\* ------------------------------------------------------------------------

MotorsOff == \A c \in Motors : pwm[c] = 0

sERROR == <<"E", "R", "R", "O", "R", ":">>

StartsWith(s, prefix) ==
    Len(s) >= Len(prefix) /\ SubSeq(s, 1, Len(prefix)) = prefix

\* The last step was the device handling this line.
Handled(line) == event.op \in {"write", "serialLoop"} /\ event.line = line

\* The last step was the device answering a line with an error.
ErrorAnswered ==
    /\ event.op \in {"write", "serialLoop"}
    /\ out # <<>>
    /\ StartsWith(out[1], sERROR)

sStopLine == CommandLine(sSTOP, <<>>)

Clamp(x, lo, hi) == IF x < lo THEN lo ELSE IF x > hi THEN hi ELSE x

\* A speed in percent as a duty of 8 bits.
Scale(speed) == (speed * 255) \div 100

\* An unsigned long as a natural number of three 16-bit digits, and the
\* natural sum of one and a small number.
Wide(u) == [top |-> 0, hi |-> u.hi, lo |-> u.lo]

WideAdd(u, n) ==
    LET lo == u.lo + n
        hi == u.hi + (lo \div Half)
    IN [top |-> hi \div Half, hi |-> hi % Half, lo |-> lo % Half]

\* C1: in the BLE firmware a disconnect, whatever state it comes in, leaves
\* the four motor channels at 0 and the timeout disarmed, and in every
\* reachable state without a client all four motor channels are 0.
C1_DisconnectStopsMotors ==
    firmware = "ble" =>
        /\ event.op = "disconnect" => MotorsOff /\ commandTimeout = UZero
        /\ ~deviceConnected => MotorsOff

\* A disconnect that came while a motor was energized.
C1_Witness == event.op = "disconnect" /\ event.moving /\ MotorsOff

\* C2: a STOP handled in any state leaves the four motor channels at 0, the
\* timeout disarmed, currentSpeed 0 and the answer OK:STOP, and handling STOP
\* a second time leaves the state the first left.
C2_StopAlwaysStops ==
    /\ Handled(sStopLine) =>
           /\ MotorsOff
           /\ commandTimeout = UZero
           /\ currentSpeed = 0
           /\ out = <<sOK_STOP>>
    /\ LET once == handleStopCommand(Device)
           twice == handleStopCommand([once EXCEPT !.out = <<>>])
       IN /\ twice = once
          /\ \A c \in Motors : once.pwm[c] = 0
          /\ once.commandTimeout = UZero
          /\ once.currentSpeed = 0

\* A STOP handled while a motor was energized.
C2_Witness == Handled(sStopLine) /\ event.moving /\ out = <<sOK_STOP>>

\* C3: the line the host's encodeCommand produces for a stop command is
\* accepted by the device's executeCommand: it is answered OK:STOP and never
\* with an error.
C3_EncodedStopAccepted ==
    Handled(encodeCommand(StopCommand)) => out = <<sOK_STOP>>

\* A MOVE or TURN has just been accepted.
MotionAccepted ==
    /\ event.op = "writeAnswer"
    /\ local.kind \in {"move", "turn"}

\* C4: under every interleaving of the BLE callback with loop()'s timeout
\* check, every accepted MOVE or TURN is eventually followed by all four
\* motor channels being 0, with no further command and no disconnect.
C4_AcceptedMotionStops == MotionAccepted ~> MotorsOff

\* C5: when a timeout is armed and the time is past the deadline, the next
\* pass of loop() sets the four motor channels to 0, disarms the timeout and
\* sends exactly one TIMEOUT:MOTOR_STOP; no TIMEOUT:MOTOR_STOP is sent while
\* no timeout is armed.
C5_TimeoutTick ==
    [][/\ ( /\ timeoutElapsed(Device)
            /\ \/ event'.op = "loop"
               \/ event'.op = "serialLoop" /\ event'.line = <<>> )
          => /\ \A c \in Motors : pwm'[c] = 0
             /\ commandTimeout' = UZero
             /\ out' = <<sTIMEOUT_MOTOR_STOP>>
       /\ commandTimeout = UZero
          => \A i \in 1..Len(out') : out'[i] # sTIMEOUT_MOTOR_STOP]_vars

\* executeCommand of the firmware that runs.
executeLine(d, line, env) ==
    LET command == trim(line)
    IN IF Len(command) = 0 THEN d
       ELSE IF d.firmware = "ble" THEN executeCommandBLE(d, command, env)
       ELSE executeCommandSerial(d, command, env)

\* C6: whenever executeCommand answers with an ERROR response, the four motor
\* channels, the armed deadline, currentSpeed and the LED brightness are what
\* they were before the command: for every line, in every reachable state.
C6_ErrorsChangeNothing ==
    \A line \in ProbeLines : \A env \in EnvironmentsFor(line) :
        LET d == executeLine(Device, line, env)
        IN (d.out # <<>> /\ StartsWith(d.out[1], sERROR)) =>
               /\ \A c \in Channels : d.pwm[c] = pwm[c]
               /\ d.commandTimeout = commandTimeout
               /\ d.currentSpeed = currentSpeed
               /\ d.ledBrightness = ledBrightness

\* A line answered with an error while the motors run under a timeout.
C6_Witness == ErrorAnswered /\ ~MotorsOff /\ commandTimeout # UZero

SpeedValues == {50, 101}

DurationValues == {1000, 20000}

\* C7: a MOVE F or B with speed s and duration d, executed at time t, drives
\* the channels of that direction at scale(clamp(s, 0, 100)) and the opposite
\* ones at 0, arms the deadline at exactly t + clamp(d, 0, 10000), sets
\* currentSpeed to the clamped speed and answers
\* OK:MOVE:<dir>:<clamped s>:<clamped d>.
C7_MoveContract ==
    \A dir \in {sF, sB} : \A s \in SpeedValues : \A t \in DurationValues :
        Handled(CommandLine(sMOVE, <<dir, IntToStr(s), IntToStr(t)>>)) =>
            LET speed == Clamp(s, 0, 100)
                time == Clamp(t, 0, 10000)
                duty == Scale(speed)
            IN /\ pwm["L1"] = (IF dir = sF THEN duty ELSE 0)
               /\ pwm["R1"] = (IF dir = sF THEN duty ELSE 0)
               /\ pwm["L2"] = (IF dir = sB THEN duty ELSE 0)
               /\ pwm["R2"] = (IF dir = sB THEN duty ELSE 0)
               /\ Wide(commandTimeout) = WideAdd(millis, time)
               /\ currentSpeed = speed
               /\ out = <<sOK_MOVE \o dir \o sColon \o IntToStr(speed)
                                   \o sColon \o IntToStr(time)>>

AngleValues == {90}

TurnSpeedValues == {30}

\* C8: a TURN L or R with angle a and speed s, executed at time t, arms the
\* deadline at t + clamp(a, 0, 360) * 1000 / 90 and answers
\* OK:TURN:<dir>:<clamped a>:<clamped s>.
C8_TurnContract ==
    \A dir \in {sL, sR} : \A a \in AngleValues : \A s \in TurnSpeedValues :
        Handled(CommandLine(sTURN, <<dir, IntToStr(a), IntToStr(s)>>)) =>
            LET angle == Clamp(a, 0, 360)
                speed == Clamp(s, 0, 100)
            IN /\ Wide(commandTimeout)
                      = WideAdd(millis, (angle * 1000) \div 90)
               /\ out = <<sOK_TURN \o dir \o sColon \o IntToStr(angle)
                                   \o sColon \o IntToStr(speed)>>

\* The duties of the brightnesses 0..100.
DutyLevels == {Scale(brightness) : brightness \in 0..100}

\* The number in a field of an answer.
Echoed(answer, index) == toInt(getValue(answer, ":", index))

\* Every number the device d holds or has just echoed is in its range;
\* before is millis() when the command began.
InRange(d, before) ==
    /\ d.currentSpeed \in 0..100
    /\ \A c \in Motors : d.pwm[c] \in {0, Scale(d.currentSpeed), ToneDuty}
    /\ d.ledBrightness \in DutyLevels
    /\ d.pwm["LED"] \in {0, d.ledBrightness}
    /\ d.pc = "beep" =>
           /\ d.frequency \in 100..5000
           /\ d.duration \in 50..3000
           /\ d.delayLeft \in 0..3000
    /\ \A c \in Channels : d.tone[c] = 0 \/ d.tone[c] \in 100..5000
    /\ \/ d.buzzer.freq = 0
       \/ d.buzzer.freq \in 100..5000 /\ d.buzzer.ms \in 50..3000
    /\ \A i \in 1..Len(d.out) :
           /\ StartsWith(d.out[i], sOK_MOVE) =>
                  /\ Echoed(d.out[i], 3) \in 0..100
                  /\ Echoed(d.out[i], 4) \in 0..10000
                  /\ Echoed(d.out[i], 3) = d.currentSpeed
                  /\ d.commandTimeout = UAdd(before, Echoed(d.out[i], 4))
           /\ StartsWith(d.out[i], sOK_TURN) =>
                  /\ Echoed(d.out[i], 3) \in 0..360
                  /\ Echoed(d.out[i], 4) \in 0..100
                  /\ Echoed(d.out[i], 4) = d.currentSpeed
                  /\ d.commandTimeout
                         = UAdd(before, turnDuration(Echoed(d.out[i], 3)))
           /\ StartsWith(d.out[i], sOK_BEEP) =>
                  /\ Echoed(d.out[i], 2) \in 100..5000
                  /\ Echoed(d.out[i], 3) \in 50..3000
           /\ StartsWith(d.out[i], sOK_WAIT) =>
                  /\ Echoed(d.out[i], 2) \in 0..5000
                  /\ d.millis = UAdd(before, Echoed(d.out[i], 2))

\* C9: whatever the parameter text (negative, over the range, missing, not a
\* number), every number the device acts on or echoes lies in its range:
\* speed 0..100, move duration 0..10000, turn angle 0..360, beep frequency
\* 100..5000, beep duration 50..3000, wait duration 0..5000, LED brightness
\* 0..100; for every line, in every reachable state.
C9_ValuesInRange ==
    \A line \in ProbeLines : \A env \in EnvironmentsFor(line) :
        InRange(executeLine(Device, line, env), millis)

\* A MOVE with its speed and its duration over their ranges was handled and
\* acted on with both cut to the range.
C9_Witness ==
    /\ Handled(CommandLine(sMOVE, <<sB, IntToStr(101), IntToStr(20000)>>))
    /\ currentSpeed = 100
    /\ pwm["L2"] = 255
    /\ out = <<sOK_MOVE \o sB \o sColon \o IntToStr(100) \o sColon
                        \o IntToStr(10000)>>

\* C10: in the BLE firmware a LED, BEEP or SENSOR command, in either state,
\* leaves the four motor channels and the armed deadline unchanged, both
\* while it runs and after it.
C10_OrthogonalCommands ==
    [][( /\ firmware = "ble"
         /\ \/ /\ event'.op = "write"
               /\ commandType(trim(event'.line)) \in {sLED, sBEEP, sSENSOR}
            \/ event'.op = "beepEnd" )
       => /\ \A c \in Motors : pwm'[c] = pwm[c]
          /\ commandTimeout' = commandTimeout]_vars

\* What each motion line of a session asks for: the duty of every motor
\* channel and the time the motion lasts.
Motions ==
    { [line |-> CommandLine(sMOVE, <<sF, IntToStr(50), IntToStr(1000)>>),
       duty |-> [L1 |-> Scale(50), L2 |-> 0, R1 |-> Scale(50), R2 |-> 0],
       time |-> 1000],
      [line |-> CommandLine(sMOVE, <<sB, IntToStr(101), IntToStr(20000)>>),
       duty |-> [L1 |-> 0, L2 |-> Scale(100), R1 |-> 0, R2 |-> Scale(100)],
       time |-> 10000],
      [line |-> CommandLine(sTURN, <<sR, IntToStr(90), IntToStr(30)>>),
       duty |-> [L1 |-> Scale(30), L2 |-> 0, R1 |-> 0, R2 |-> Scale(30)],
       time |-> 1000] }

\* A timeout is armed and its deadline has not passed.
StillArmed == commandTimeout # UZero /\ ~UGt(millis, commandTimeout)

\* C11: a MOVE or TURN accepted at time t2 while an earlier timeout is still
\* armed leaves the motor channels at those of the second command and the
\* deadline at t2 + the second command's duration, whatever the old deadline
\* was; and the auto-stop of loop() disarms the timeout, so that one
\* auto-stop follows and no more.
C11_LastWriteWins ==
    [][/\ \A m \in Motions :
              ( /\ StillArmed
                /\ event'.op \in {"write", "serialLoop"}
                /\ event'.line = m.line )
              => /\ \A c \in Motors : pwm'[c] = m.duty[c]
                 /\ Wide(commandTimeout') = WideAdd(millis, m.time)
       /\ ( /\ timeoutElapsed(Device)
            /\ event'.op \in {"loop", "serialLoop"} )
          => commandTimeout' = UZero \/ event'.line # <<>>]_vars

sOK == <<"O", "K", ":">>

\* The response answers the command line: an error, the line's own TYPE
\* acknowledged, or a reading for a SENSOR line.
Answers(response, line) ==
    LET type == commandType(trim(line))
    IN \/ StartsWith(response, sERROR)
       \/ StartsWith(response, sOK \o type \o sColon)
       \/ response = sOK \o type
       \/ type = sSENSOR /\ StartsWith(response, sSENSOR \o sColon)

\* A response of the families that answer a command.
IsAnswer(response) ==
    \/ StartsWith(response, sOK)
    \/ StartsWith(response, sERROR)
    \/ StartsWith(response, sSENSOR \o sColon)

\* With each callback and each pass of loop() taken as one step, every
\* command written to the BLE firmware while the client is connected gets
\* exactly one response of the families OK, SENSOR and ERROR, which answers
\* that command and is sent before the next command is processed: at once by
\* the write's own callback, or, for a BEEP, when its delay() returns, with
\* no write handled in between; no other step sends a response of these
\* families.
AnsweredInTurn ==
    [][firmware = "ble" =>
         /\ (event'.op = "write" /\ Len(trim(event'.line)) > 0) =>
                \/ /\ pc' = "idle"
                   /\ Len(out') = 1
                   /\ IsAnswer(out'[1])
                   /\ Answers(out'[1], event'.line)
                \/ /\ pc' = "beep"
                   /\ commandType(trim(event'.line)) = sBEEP
                   /\ out' = <<>>
         /\ pc = "beep" =>
                /\ event'.op \in {"tick", "loop", "beepEnd"}
                /\ deviceConnected'
                /\ event'.op # "beepEnd" => pc' = "beep"
         /\ event'.op = "beepEnd" =>
                /\ pc' = "idle"
                /\ out' = <<sOK_BEEP \o IntToStr(frequency) \o sColon
                                     \o IntToStr(duration)>>
         /\ event'.op \notin {"write", "beepEnd"} =>
                \A i \in 1..Len(out') : ~IsAnswer(out'[i])]_vars

\* C12: with the BLE callback and loop() interleaved, every command written
\* while the client is connected is notified exactly one response of the
\* families OK, SENSOR and ERROR, which answers that command: the handler's
\* notification carries the answer to its own command, and the notification
\* loop() sends for a timeout is no response of these families.
C12_OneResponsePerCommand ==
    [][/\ event'.op = "writeNotify" =>
              /\ Len(out') = 1
              /\ local.kind = "move" => StartsWith(out'[1], sOK_MOVE)
              /\ local.kind = "turn" => StartsWith(out'[1], sOK_TURN)
              /\ local.kind = "stop" => out'[1] = sOK_STOP
       /\ event'.op = "loopNotify" =>
              \A i \in 1..Len(out') : ~IsAnswer(out'[i])]_vars

\* C13: in the BLE firmware the line WAIT:<d> that the encoder emits for a
\* wait command is answered OK:WAIT:<clamp(d, 0, 5000)> and leaves the four
\* motor channels and the armed deadline unchanged.
C13_EncodedWaitAnswered ==
    [][( /\ firmware = "ble"
         /\ event'.op = "write"
         /\ event'.line = encodeCommand(WaitCommand) )
       => /\ out' = <<sOK_WAIT
                          \o IntToStr(Clamp(WaitCommand.duration, 0, 5000))>>
          /\ \A c \in Motors : pwm'[c] = pwm[c]
          /\ commandTimeout' = commandTimeout]_vars

\* C14: after every disconnect all actuators are off: the four motor
\* channels, the LED's PWM output and ledBrightness are 0 and no tone
\* sounds, whatever LED or BEEP commands came before.
C14_DisconnectResetsActuators ==
    (firmware = "ble" /\ event.op = "disconnect") =>
        /\ MotorsOff
        /\ pwm["LED"] = 0
        /\ ledBrightness = 0
        /\ \A c \in Channels : tone[c] = 0

\* The duties of the four motor channels.
Duties(d) == [c \in Motors |-> d.pwm[c]]

\* C15: for every speed in 0..100, from every reachable state, forward sets
\* both forward channels to speed * 255 / 100 and both reverse channels to
\* 0, backward is its mirror, turnLeft sets the left reverse and the right
\* forward channel to the scaled value and the other two to 0, turnRight is
\* its mirror and stop sets all four to 0; 0 scales to 0, 100 to 255 and
\* every duty lies in 0..255.
C15_ActuationMapping ==
    /\ Scale(0) = 0
    /\ Scale(100) = 255
    /\ \A speed \in 0..100 :
           LET duty == Scale(speed)
           IN /\ duty \in 0..255
              /\ Duties(moveForward(Device, speed))
                     = [L1 |-> duty, L2 |-> 0, R1 |-> duty, R2 |-> 0]
              /\ Duties(moveBackward(Device, speed))
                     = [L1 |-> 0, L2 |-> duty, R1 |-> 0, R2 |-> duty]
              /\ Duties(turnLeft(Device, speed))
                     = [L1 |-> 0, L2 |-> duty, R1 |-> duty, R2 |-> 0]
              /\ Duties(turnRight(Device, speed))
                     = [L1 |-> duty, L2 |-> 0, R1 |-> 0, R2 |-> duty]
    /\ Duties(stopMotors(Device)) = [c \in Motors |-> 0]

\* A right turn at speed 30 made while the robot was driving: the left wheel
\* now runs forward and the right wheel in reverse.
C15_Witness ==
    /\ Handled(CommandLine(sTURN, <<sR, IntToStr(90), IntToStr(30)>>))
    /\ event.moving
    /\ commandTimeout # UZero
    /\ Duties(Device) = [L1 |-> Scale(30), L2 |-> 0, R1 |-> 0,
                          R2 |-> Scale(30)]

\* The line has a colon somewhere.
HasColon(line) == \E i \in 1..Len(line) : line[i] = ":"

\* The text before the first colon of a line that has one.
TypeOf(line) ==
    LET first == CHOOSE i \in 1..Len(line) :
                     line[i] = ":" /\ \A j \in 1..(i - 1) : line[j] # ":"
    IN SubSeq(line, 1, first - 1)

\* The TYPEs the running firmware has a handler for.
KnownTypes ==
    {sMOVE, sTURN, sSTOP, sLED, sBEEP, sSENSOR}
    \cup (IF firmware = "serial" THEN {sWAIT} ELSE {})

\* executeCommand of the firmware that runs, given the command as it is.
executeCommand(d, command, env) ==
    IF d.firmware = "ble" THEN executeCommandBLE(d, command, env)
    ELSE executeCommandSerial(d, command, env)

Compiled == pcHost = "compiled"

\* C17: whatever speed a move or turn block carries, under, in or over
\* 0..100, the speed of the command compiled from it lies in 0..100 and is
\* the block's speed cut to that range: -1 compiles to 0, 101 to 100.
C17_CompiledSpeedClamped ==
    Compiled =>
        \A i \in 1..Len(blocks) :
            splitFirst(blocks[i].id) \in {sMoveKind, sTurnKind} =>
                LET given == blocks[i].parameters.speed
                    speed == commands[i].parameters.speed
                IN /\ i <= Len(commands)
                   /\ commands[i].type \in {"move", "turn"}
                   /\ speed \in 0..100
                   /\ given # 0 => speed = Clamp(given, 0, 100)
                   /\ given = -1 => speed = 0
                   /\ given = 101 => speed = 100

\* A program compiled whose first block is a move with speed -1 and whose
\* second is a turn with speed 101.
C17_Witness ==
    /\ Compiled
    /\ Len(blocks) = 2
    /\ splitFirst(blocks[1].id) = sMoveKind
    /\ blocks[1].parameters.speed = -1
    /\ commands[1].parameters.speed = 0
    /\ splitFirst(blocks[2].id) = sTurnKind
    /\ blocks[2].parameters.speed = 101
    /\ commands[2].parameters.speed = 100

\* The forward move block with speed 150 and duration 20000.
FastLongMove == Block(<<"m", "o", "v", "e", "-", "f", "o", "r", "w", "a", "r", "d">>, 150, 20000, 0, 0)

\* C18: every numeric field of every compiled command is inside its range:
\* a move's speed in 0..100 and duration in 0..10000, a wait's duration in
\* 0..5000, a turn's angle in 0..360 and speed in 0..100, an LED's
\* brightness in 0..100; and the forward move block with speed 150 and
\* duration 20000 compiles to speed 100 and duration 10000 and encodes as
\* MOVE:F:100:10000.
C18_CompiledFieldsInRange ==
    Compiled =>
        \A i \in 1..Len(commands) :
            LET c == commands[i]
            IN /\ c.type = "move" =>
                      /\ c.parameters.speed \in 0..100
                      /\ c.parameters.duration \in 0..10000
                      /\ c.duration \in 0..10000
               /\ c.type = "wait" =>
                      /\ c.parameters.time \in 0..5000
                      /\ c.duration \in 0..5000
               /\ c.type = "turn" =>
                      /\ c.parameters.angle \in 0..360
                      /\ c.parameters.speed \in 0..100
               /\ c.type = "led" => c.parameters.brightness \in 0..100
               /\ blocks[i] = FastLongMove =>
                      /\ c.parameters.speed = 100
                      /\ c.parameters.duration = 10000
                      /\ encodeCommand(c)
                             = CommandLine(sMOVE, <<sF, IntToStr(100),
                                                    IntToStr(10000)>>)

\* C19: compileProgram returns, for every list of blocks, a list of the
\* same length whose i-th command is the compilation of the i-th block,
\* blocks of unknown kinds included; for the empty list it returns the
\* empty list.
C19_CompileTotalInOrder ==
    Compiled =>
        /\ Len(commands) = Len(blocks)
        /\ \A i \in 1..Len(blocks) :
               /\ i <= Len(commands)
               /\ commands[i] = compileBlock(blocks[i])
               /\ commands[i].type
                      \in {"move", "turn", "stop", "led", "beep", "wait",
                           "sensor"}
        /\ blocks = <<>> => commands = <<>>

\* A program compiled whose first block is of an unknown kind and whose
\* second is a stop: two commands, the second the stop command.
C19_Witness ==
    /\ Compiled
    /\ Len(blocks) = 2
    /\ splitFirst(blocks[1].id) \notin BlockKinds
    /\ splitFirst(blocks[2].id) = sStopKind
    /\ Len(commands) = 2
    /\ commands[2] = StopCommand

\* C20: a block of a kind the compiler does not know compiles to a wait
\* command of duration 0 and a diagnostic on the console, and the blocks
\* around it are compiled as they are otherwise.
C20_UnknownBlockIsWaitZero ==
    Compiled =>
        /\ Len(commands) = Len(blocks)
        /\ \A i \in 1..Len(blocks) :
               IF splitFirst(blocks[i].id) \in BlockKinds
               THEN commands[i] = compileBlock(blocks[i])
               ELSE /\ commands[i].type = "wait"
                    /\ commands[i].duration = 0
                    /\ commands[i].durationNinths = 0
                    /\ \E k \in 1..Len(console) : console[k] = blocks[i].id

\* A turn block that carries an angle parameter inside 0..360.
TurnWithAngle(block) ==
    /\ splitFirst(block.id) = sTurnKind
    /\ "angle" \in block.given
    /\ block.parameters.angle \in 0..360

\* C21: for every turn block with an angle parameter a in 0..360, the
\* duration of the compiled turn command is max(500, (a / 90) * 1000) ms;
\* in ninths of a millisecond, max(4500, 100 * a).
C21_TurnDuration ==
    Compiled =>
        \A i \in 1..Len(blocks) :
            TurnWithAngle(blocks[i]) =>
                /\ i <= Len(commands)
                /\ commands[i].type = "turn"
                /\ 9 * commands[i].duration + commands[i].durationNinths
                       = MathMax(4500, 100 * blocks[i].parameters.angle)

\* A move or turn block naming no known direction, an LED block naming no
\* known state, a sensor block naming no known sensor.
UnknownToken(block) ==
    LET kind == splitFirst(block.id)
    IN \/ /\ kind = sMoveKind
          /\ ~includes(block.id, sForward)
          /\ ~includes(block.id, <<"b", "a", "c", "k", "w", "a", "r", "d">>)
       \/ /\ kind = sTurnKind
          /\ ~includes(block.id, sLeft)
          /\ ~includes(block.id, <<"r", "i", "g", "h", "t">>)
       \/ /\ kind = sLedKind
          /\ ~includes(block.id, sOn)
          /\ ~includes(block.id, <<"o", "f", "f">>)
       \/ /\ kind \in {sReadKind, sCheckKind}
          /\ ~includes(block.id, sLowerDistance)
          /\ ~includes(block.id, sObstacle)
          /\ ~includes(block.id, sLight)

\* C22: a move or turn block whose direction is not a known one, an LED
\* block whose state is not on or off and a sensor block naming no known
\* sensor are rejected by the compiler: no move, turn, LED or sensor
\* command is compiled from them, with a default direction, state or
\* sensor in the place of the unknown one.
C22_UnknownTokenRejected ==
    Compiled =>
        \A i \in 1..Len(blocks) :
            UnknownToken(blocks[i]) =>
                ~(/\ i <= Len(commands)
                  /\ commands[i].type \in {"move", "turn", "led", "sensor"})

\* validateProgram has been called; Validated is what it returned.
WasValidated == validation # <<>>

Validated == validation[1]

\* The message is one of the errors.
Reports(errors, message) == \E k \in 1..Len(errors) : errors[k] = message

\* How many commands of the list are moves.
MoveCount(list) == Cardinality({k \in 1..Len(list) : list[k].type = "move"})

\* C23: validateProgram returns exactly the violated policies: "empty" if
\* and only if the list has no command, "too long" if and only if it has
\* more than 50, "too many movement commands" if and only if more than 20
\* of them are moves, each once and nothing else; valid is true if and
\* only if there is no error.  The empty list gets exactly one error, and
\* 21 move blocks compile to 21 commands that get exactly the battery
\* error.
C23_ValidateExact ==
    WasValidated =>
        LET errors == Validated.errors
            list == Validated.input
            violated ==
                {m \in {"empty", "long", "drain"} :
                    \/ m = "empty" /\ Len(list) = 0
                    \/ m = "long" /\ Len(list) > 50
                    \/ m = "drain" /\ MoveCount(list) > 20}
        IN /\ Reports(errors, "Program is empty") <=> "empty" \in violated
           /\ Reports(errors, "Program too long (max 50 commands)")
                  <=> "long" \in violated
           /\ Reports(errors,
                      "Too many movement commands - may drain battery quickly")
                  <=> "drain" \in violated
           /\ Len(errors) = Cardinality(violated)
           /\ Validated.valid <=> errors = <<>>
           /\ list = <<>> => errors = <<"Program is empty">>
           /\ (Compiled /\ list = commands /\ Len(blocks) = 21
                  /\ \A k \in 1..21 : splitFirst(blocks[k].id) = sMoveKind)
                  => /\ Len(commands) = 21
                     /\ errors = <<"Too many movement commands - may drain battery quickly">>

\* 21 move blocks have been compiled and the 21 commands validated.
C23_Witness ==
    /\ Compiled
    /\ WasValidated
    /\ Len(blocks) = 21
    /\ \A k \in 1..21 : splitFirst(blocks[k].id) = sMoveKind
    /\ Validated.input = commands
    /\ Len(commands) = 21
    /\ ~Validated.valid

\* C24: a call of validateProgram leaves the command list it is given, and
\* the blocks, as they were; and what compileProgram returned is the
\* compilation of the blocks whether validateProgram was called before it
\* or not, and whatever it returned.
C24_ValidateChangesNothing ==
    /\ [][(validation' # validation /\ validation' # <<>>)
             => (commands' = commands /\ blocks' = blocks
                    /\ validation'[1].input = commands)]_vars
    /\ [](Compiled => commands = compileProgram(blocks))

\* validateProgram was called on the empty list and found it invalid, and
\* then a program of 51 blocks was compiled.
C24_Witness ==
    /\ Compiled
    /\ WasValidated
    /\ Validated.input = <<>>
    /\ ~Validated.valid
    /\ Len(commands) = 51

\* The request SENSOR:OBSTACLE and its two answers.
sObstacleLine == CommandLine(sSENSOR, <<sOBSTACLE>>)

sObstacleYes == sSENSOR_OBSTACLE \o <<"1">> \o sBoolean

sObstacleNo == sSENSOR_OBSTACLE \o <<"0">> \o sBoolean

\* Echo times in microseconds: none, the shortest, the two around 2 cm,
\* 15 cm, the two around 20 cm (19.992 and 20.009 cm), 25 cm, the two
\* around 400 cm, and the longest pulseIn waits for.
ProbeEchoes == {0, 1, 117, 118, 882, 1176, 1177, 1471, 23529, 23530, 30000}

\* The last step executed the request SENSOR:OBSTACLE.
ObstacleAsked ==
    /\ event.op \in {"write", "serialLoop"}
    /\ trim(event.line) = sObstacleLine

\* C25: SENSOR:OBSTACLE is answered SENSOR:OBSTACLE:1:boolean when the
\* distance reading is below 20 cm and SENSOR:OBSTACLE:0:boolean when it is
\* not (15 cm gives 1, 25 cm gives 0, 19.992 cm gives 1, 20.009 cm gives
\* 0), and the motor channels and the deadline stay as they were: for every
\* echo time, in every reachable state where a request can arrive, and in
\* the step that executed the request (a pass of the serial loop() goes on
\* to its timeout check, which is not part of the request).
C25_ObstacleThreshold ==
    /\ (firmware = "serial" \/ deviceConnected) =>
       \A echo \in ProbeEchoes :
           LET env == [echo |-> echo, light |-> 0]
               d == executeLine(Device, sObstacleLine, env)
               reading == readDistanceSensor(Device, env)
           IN /\ d.out = <<IF reading < 20 * 1000 THEN sObstacleYes
                           ELSE sObstacleNo>>
              /\ echo \in {882, 1176} => d.out = <<sObstacleYes>>
              /\ echo \in {1177, 1471} => d.out = <<sObstacleNo>>
              /\ \A c \in Motors : d.pwm[c] = pwm[c]
              /\ d.commandTimeout = commandTimeout
    /\ ObstacleAsked =>
           /\ out = <<IF readDistanceSensor(Device, event.env) < 20 * 1000
                      THEN sObstacleYes ELSE sObstacleNo>>
           /\ event.op = "write" => (event.moving <=> ~MotorsOff)

\* SENSOR:OBSTACLE was asked while the motors ran with a deadline armed and
\* an echo came back from 15 cm: the answer is 1 and the motors still run.
C25_Witness ==
    /\ ObstacleAsked
    /\ event.env.echo = 882
    /\ out = <<sObstacleYes>>
    /\ event.moving
    /\ ~MotorsOff
    /\ commandTimeout # UZero

\* C26: in each firmware, a ranging pulse that gets no echo reads as the
\* maximum range, 400 cm, and is answered with a SENSOR response:
\* SENSOR:OBSTACLE with no echo answers 0, and SENSOR:DISTANCE answers
\* 400.00 cm.
C26_NoEchoIsMaxRange ==
    (ObstacleAsked /\ event.env.echo = 0) =>
        /\ out = <<sObstacleNo>>
        /\ executeLine(Device, CommandLine(sSENSOR, <<sDISTANCE>>), NoEcho).out
               = <<sSENSOR_DISTANCE \o <<"4", "0", "0", ".", "0", "0">> \o sCm>>

\* The last step was a call of sendCommand.
Sent == result.op = "sendCommand"

\* C27: sendCommand called while no session is active (never connected,
\* after disconnect(), after a failed connectToDevice, after the link has
\* dropped) throws the not-connected error and writes nothing.
C27_SendNeedsSession ==
    (Sent /\ ~result.session) => result.outcome = "No device connected"

\* C28: no write of sendCommand goes through while the response
\* notifications are not set up: when a write is made, startNotifications
\* has been answered on this connection and the listener is in place.
C28_SubscribedBeforeWrite ==
    (Sent /\ result.outcome = "written") => result.subscribed

\* A command was written, and the device's answer reached handleResponse
\* and the page's callback.
C28_Witness ==
    /\ Sent
    /\ result.outcome = "written"
    /\ result.subscribed
    /\ heard = <<sOK_STOP>>
    /\ adapter.responseCallbacks # <<>>

\* C29: every response the device sends while a client is connected
\* reaches handleResponse: none is sent while the host is not subscribed.
C29_NoResponseMissed == lost = <<>>

\* C30: disconnect() never fails, leaves connectedDevice,
\* commandCharacteristic and responseCharacteristic null, and a second call
\* leaves the adapter exactly as the first left it: for the adapter of
\* every reachable state, and in the step that made the call.
C30_DisconnectIdempotent ==
    /\ LET once == disconnect(adapter)
       IN /\ once.connectedDevice = "null"
          /\ once.commandCharacteristic = 0
          /\ once.responseCharacteristic = 0
          /\ disconnect(once) = once
    /\ result.op = "disconnect" =>
           /\ result.outcome = "resolved"
           /\ adapter.connectedDevice = "null"
           /\ adapter.commandCharacteristic = 0
           /\ adapter.responseCharacteristic = 0
           /\ disconnect(adapter) = adapter

\* disconnect() was called during a session, with the motors running: the
\* session is over, the link is down and the device has stopped.
C30_Witness ==
    /\ result.op = "disconnect"
    /\ result.session
    /\ ~adapter.connected
    /\ adapter.link > 0
    /\ event.op = "disconnect"
    /\ event.moving
    /\ MotorsOff

\* C31: the host has at most one command outstanding: a command is written
\* only when no response to an earlier command is still to be observed,
\* unless time has passed since that command was answered (a timeout of
\* the host's may then have expired).
C31_OneOutstandingCommand ==
    [][(event'.op = "write" /\ Len(inbox') > Len(inbox))
          => \A k \in 1..Len(inbox) :
                 inbox[k].solicited => inbox[k].at # millis]_vars

\* The well-formed MOVE, TURN and BEEP lines: a valid direction and every
\* number in canonical decimal inside its range, the ends of the ranges
\* among them.
CanonicalLines ==
    {CommandLine(sMOVE, <<dir, IntToStr(s), IntToStr(t)>>) :
        dir \in {sF, sB}, s \in {0, 50, 100}, t \in {0, 1000, 10000}}
    \cup {CommandLine(sTURN, <<dir, IntToStr(a), IntToStr(s)>>) :
             dir \in {sL, sR}, a \in {0, 90, 360}, s \in {0, 30, 100}}
    \cup {CommandLine(sBEEP, <<IntToStr(f), IntToStr(t)>>) :
             f \in {100, 1000, 5000}, t \in {50, 500, 3000}}

\* What the device answers to a line it executes now: for a BEEP of the
\* BLE firmware, what it sends when delay() has returned.
answerTo(line) ==
    LET d == executeLine(Device, line, NoEcho)
    IN IF d.pc = "beep" THEN handleBeepCommandBLE_end(d).out ELSE d.out

\* C32: the device answers every well-formed MOVE, TURN or BEEP line whose
\* direction is valid and whose numbers are canonical and in range with
\* exactly "OK:" followed by that line, in every state in which it takes a
\* command (the BLE firmware: connected, and no callback running).
C32_EchoIsTheLine ==
    /\ (firmware = "serial" \/ (deviceConnected /\ pc = "idle")) =>
           \A line \in CanonicalLines : answerTo(line) = <<sOK \o line>>
    /\ \A line \in CanonicalLines :
           (Handled(line) /\ pc = "idle")
               => sOK \o line \in {out[i] : i \in 1..Len(out)}

\* A TURN of that kind has been executed and answered.
C32_Witness ==
    /\ Handled(CommandLine(sTURN, <<sR, IntToStr(90), IntToStr(30)>>))
    /\ out = <<sOK \o CommandLine(sTURN, <<sR, IntToStr(90), IntToStr(30)>>)>>

\* The fields the device decodes from a line, as its handlers read them.
Decoded(line) ==
    LET type == commandType(line)
        params == commandParams(line)
    IN IF type = sMOVE
       THEN [direction |-> moveArgs(params).direction,
             speed |-> moveArgs(params).speed,
             duration |-> moveArgs(params).duration,
             angle |-> 0, brightness |-> 0, frequency |-> 0]
       ELSE IF type = sTURN
       THEN [direction |-> turnArgs(params).direction,
             speed |-> turnArgs(params).speed,
             duration |-> 0,
             angle |-> turnArgs(params).angle, brightness |-> 0,
             frequency |-> 0]
       ELSE IF type = sLED
       THEN [direction |-> getValue(params, ":", 0),
             speed |-> 0, duration |-> 0, angle |-> 0,
             brightness |->
                 constrain(toInt(getValue(params, ":", 1)), 0, 100),
             frequency |-> 0]
       ELSE [direction |-> <<>>,
             speed |-> 0,
             duration |->
                 constrain(toInt(getValue(params, ":", 1)), 50, 3000),
             angle |-> 0, brightness |-> 0,
             frequency |->
                 constrain(toInt(getValue(params, ":", 0)), 100, 5000)]

\* The direction token of a command of the host.
Token(command) ==
    CASE command.action = "forward" -> sF
      [] command.action = "backward" -> sB
      [] command.action = "left" -> sL
      [] command.action = "right" -> sR
      [] command.action = "on" -> sON
      [] OTHER -> <<>>

\* What the device decodes is what the command holds.
SameFields(command, fields) ==
    /\ fields.direction = Token(command)
    /\ fields.speed = command.parameters.speed
    /\ fields.duration = command.parameters.duration
    /\ fields.angle = command.parameters.angle
    /\ fields.brightness = command.parameters.brightness
    /\ fields.frequency = command.parameters.frequency

\* C33: for a move, turn, LED-on or beep command with every field inside
\* its range, 0 included, the direction and the numbers the device decodes
\* from encodeCommand(cmd) when it executes the line are those of cmd.
C33_EncodingKeepsFields ==
    Handled(encodeCommand(Sending))
        => SameFields(Sending, Decoded(encodeCommand(Sending)))

\* The same for the commands no numeric field of which is 0.
C33_NonZeroFieldsKept ==
    (/\ Handled(encodeCommand(Sending))
     /\ Sending.type \in {"move", "turn"} =>
            Sending.parameters.speed # 0
     /\ Sending.type = "move" => Sending.parameters.duration # 0
     /\ Sending.type = "turn" => Sending.parameters.angle # 0
     /\ Sending.type = "led" => Sending.parameters.brightness # 0)
        => SameFields(Sending, Decoded(encodeCommand(Sending)))

\* The fields of data split on every separator: one more than there are
\* separators, the empty text has the one field "".
RECURSIVE SplitOn(_, _)
SplitOn(data, separator) ==
    LET at == indexOf(data, separator)
    IN IF at = -1 THEN <<data>>
       ELSE <<substring(data, 0, at)>>
                \o SplitOn(substringFrom(data, at + 1), separator)

\* The n-th field (from 0) of data split on the separator, "" past the last.
FieldOf(data, separator, n) ==
    LET fields == SplitOn(data, separator)
    IN IF n < Len(fields) THEN fields[n + 1] ELSE <<>>

\* C34: getValue(data, ':', n) is the n-th field (from 0) of data split on
\* every colon, and the empty text when data has fewer than n + 1 fields,
\* for the parameters of every line the device has executed.
C34_GetValueIsSplit ==
    \A data \in FieldTexts :
        Handled(sMOVE \o sColon \o data) =>
            \A n \in 0..MaxText :
                getValue(data, ":", n) = FieldOf(data, ":", n)

\* The same for the texts that do not end in a colon.
C34_SplitUnlessColonLast ==
    \A data \in FieldTexts :
        (Handled(sMOVE \o sColon \o data)
         /\ (data = <<>> \/ data[Len(data)] # ":")) =>
            \A n \in 0..MaxText :
                getValue(data, ":", n) = FieldOf(data, ":", n)

\* loop() of the serial firmware ends with delay(10): the timeout is tested
\* every 10 ms.
PollingInterval == 10

\* a <= b for two natural numbers of three 16-bit digits.
WideLe(a, b) ==
    \/ a.top < b.top
    \/ a.top = b.top /\ a.hi < b.hi
    \/ a.top = b.top /\ a.hi = b.hi /\ a.lo <= b.lo

\* C35: in the serial firmware a pass of loop() that begins with the motors
\* energized under a deadline that has not passed, and that processes a
\* WAIT, SENSOR or BEEP, makes its timeout check no later than one polling
\* interval after the deadline: the motors are not left energized past the
\* deadline by more than that.
C35_CheckWithinATick ==
    [][(/\ firmware = "serial"
        /\ event'.op = "serialLoop"
        /\ commandType(trim(event'.line)) \in {sWAIT, sSENSOR, sBEEP}
        /\ ~MotorsOff
        /\ commandTimeout # UZero
        /\ ~UGt(millis, commandTimeout))
          => WideLe(Wide(millis'),
                    WideAdd(commandTimeout, PollingInterval))]_vars

\* C36: after every completed handler and every completed pass of loop(),
\* a motor channel that is not 0 has a timeout armed: commandTimeout is not
\* 0, the value loop() reads as disarmed.
C36_EnergizedIsArmed ==
    (pc = "idle" /\ ~MotorsOff) => commandTimeout # UZero

\* C37: in the BLE firmware no wheel has its forward and its reverse channel
\* non-zero at once, in any state, a sounding BEEP included: never L1 > 0
\* and L2 > 0, never R1 > 0 and R2 > 0.
C37_NoWheelDrivenBothWays ==
    firmware = "ble" =>
        /\ ~(pwm["L1"] > 0 /\ pwm["L2"] > 0)
        /\ ~(pwm["R1"] > 0 /\ pwm["R2"] > 0)

\* The same in the states in which no BEEP is sounding.
C37_NotBothWaysUnlessBeep ==
    (firmware = "ble" /\ pc # "beep") =>
        /\ ~(pwm["L1"] > 0 /\ pwm["L2"] > 0)
        /\ ~(pwm["R1"] > 0 /\ pwm["R2"] > 0)

\* The MOVE lines of a session, with the duration each arms.
ArmingMoves ==
    {CommandLine(sMOVE, <<sF, IntToStr(50), IntToStr(1000)>>),
     CommandLine(sMOVE, <<sB, IntToStr(101), IntToStr(20000)>>)}

\* C38: the deadline arithmetic is safe at the wrap of millis(): whatever
\* the time a MOVE with a duration above 0 arrives at, when its handler (on
\* the serial firmware: the pass of loop() that executes it) has finished
\* the motors are energized, a deadline is armed and it has not elapsed.
C38_DeadlineSurvivesWrap ==
    \A line \in ArmingMoves :
        Handled(line) =>
            /\ ~MotorsOff
            /\ commandTimeout # UZero
            /\ ~timeoutElapsed(Device)

\* The same for the arrival times at which millis() + duration does not
\* pass 2^32.
C38_DeadlineAwayFromWrap ==
    \A line \in ArmingMoves :
        (Handled(line) /\ millis.hi = 0) =>
            /\ ~MotorsOff
            /\ commandTimeout # UZero
            /\ ~timeoutElapsed(Device)

\* The duration, in ms, the device arms when it executes the line a turn
\* command is encoded as.
ArmedFor(command) == turnArgs(commandParams(encodeCommand(command))).duration

\* A turn block with an angle in 1..360.
TurnInRange(block) == TurnWithAngle(block) /\ block.parameters.angle >= 1

\* C39: for every turn block with an angle in 1..360 the duration the
\* compiler declares for the command is the duration the device arms when
\* it executes the encoded TURN line.
C39_DeclaredIsArmed ==
    Compiled =>
        \A i \in 1..Len(blocks) :
            TurnInRange(blocks[i]) =>
                /\ i <= Len(commands)
                /\ commands[i].type = "turn"
                /\ commands[i].durationNinths = 0
                /\ commands[i].duration = ArmedFor(commands[i])

\* The same for the angles from 45 degrees that are multiples of 9.
C39_DeclaredIsArmedFromHalfASecond ==
    Compiled =>
        \A i \in 1..Len(blocks) :
            (/\ TurnInRange(blocks[i])
             /\ blocks[i].parameters.angle >= 45
             /\ blocks[i].parameters.angle % 9 = 0) =>
                /\ i <= Len(commands)
                /\ commands[i].durationNinths = 0
                /\ commands[i].duration = ArmedFor(commands[i])

====
